---- MODULE Spec2Model ----
(***************************************************************************)
(* The segment / sub-page / quiz navigation state machine of the reading   *)
(* application: the Book Session (BookPage), the Segment Orchestrator      *)
(* (handleInternalNavigate and the quiz loader), the Reading Controller    *)
(* (ReadingView), the Quiz Controller (QuizView) and the Audio Transport   *)
(* Controller (AudioPlayer).                                               *)
(*                                                                         *)
(* Indices of SubPages and quiz questions are 0-based as in the source;    *)
(* segments are numbered 1..Len(segments) and a segment's identifier is    *)
(* its number.  One action is one event handler, timer callback or promise *)
(* continuation together with the re-render it causes; the passive effects *)
(* that the re-render schedules run in the separate action FlushEffects,   *)
(* which React runs before it handles any later event.                     *)
(***************************************************************************)
EXTENDS Integers, Sequences, FiniteSets, TLC

VARIABLES
    segments,        \* BookPage: the ordered segments of the book
    userId,          \* BookPage: TRUE iff a user identity is present
    currentIndex,    \* BookPage: number of the current segment
    subPageIndex,    \* orchestrator: linear index within the segment
    totalSubPages,   \* orchestrator: SubPage count reported by ReadingView
    quizzes,         \* orchestrator: the quiz set
    fetches,         \* loadQuizzes calls waiting at one of their awaits
    view,            \* which child the orchestrator has mounted
    rv,              \* ReadingView state (partIndex, pageParts, ...)
    qv,              \* QuizView state (currentQuizIndex, hasSubmitted, ...)
    timers,          \* pending setTimeout callbacks scheduled by QuizView
    pendingEffects,  \* passive effects scheduled by the last commit
    last,            \* the last event and what it signalled upward
    session,         \* what the session explores: timeouts, render lag, history
    history,         \* what QuizView has reported and scheduled so far
    mounted,         \* AudioPlayer: the component is mounted
    audioUrl,        \* AudioPlayer prop
    enabled,         \* AudioPlayer prop
    sound,           \* AudioPlayer state: the attached sound, 0 for null
    isLoading,       \* AudioPlayer state
    isPlaying,       \* AudioPlayer state
    loads,           \* runs of the load effect (one loadSound call each)
    loaded,          \* sounds whose resource is loaded in the native player
    released,        \* sounds that were loaded and have been unloaded
    transport,       \* native player: position of a sound against endPosition
    page,            \* a text handed to createPageParts and the reader on its SubPages
    answers,         \* a question handed to QuizView and the answer lists it displayed
    playback,        \* native status of the attached sound, startPosition, last calls
    alignment,       \* a page text, alignment data and the timing found for it
    autoplay         \* BookPage's autoplay trigger and ReadingView's autoPlay effect

navVars == <<segments, userId, currentIndex, subPageIndex, totalSubPages,
             quizzes, fetches, view, rv, qv, timers, pendingEffects, last,
             session, history>>
audioVars == <<mounted, audioUrl, enabled, sound, isLoading, isPlaying,
               loads, loaded, released, transport>>
unitVars == <<page, answers, playback, alignment, autoplay>>
vars == <<navVars, audioVars, unitVars>>

\* ------------------------------------------------------------------ bounds
NumSegments == 3
MaxSentences == 4
MaxQuestions == 2
MaxChars == 5
MaxQuizId == 4
MaxSpans == 3
MaxIncorrect == 3
MaxTimers == 1
MaxQuizTimers == 2
MaxTicks == 2
MaxLoads == 3
NumUrls == 2
MaxSignals == 2
MaxRuns == 2

\* ------------------------------------------------------- program constants
SENTENCES_PER_PAGE == 3
SENTENCES_PER_PAGE_ONE == 1
BOUNDARY_WORDS == 5

Min(a, b) == IF a < b THEN a ELSE b

\* --------------------------------------------------------------- segments
\* A segment: slide_type, text (abstracted to its number of sentences, 0 for
\* the empty string), the number of questions the quiz bank holds for it.
TextSeg(n, k) == [slide_type |-> "text", text |-> n, bank |-> k]
SectionSeg == [slide_type |-> "section", text |-> 0, bank |-> 0]

\* The segment kinds a book repeats: long text with quizzes, short text
\* without, a title card; and long text with quizzes, empty text with quizzes,
\* short text without.
Kinds1 == << TextSeg(MaxSentences, MaxQuestions), TextSeg(1, 0), SectionSeg >>
Kinds2 == << TextSeg(MaxSentences, MaxQuestions), TextSeg(0, MaxQuestions),
             TextSeg(1, 0) >>
Book(kinds) == [i \in 1..NumSegments |-> kinds[((i - 1) % Len(kinds)) + 1]]

\* The sessions explored: a book and whether a user identity is present.
Sessions == { <<Book(Kinds1), TRUE>>, <<Book(Kinds2), TRUE>>, <<Book(Kinds1), FALSE>> }

\* The questions the quiz bank returns for segment s.
QuizBank(s) == [k \in 1..segments[s].bank |-> [seg |-> s, id |-> k]]

\* createPageParts for a non-empty text of n sentences: pages of
\* SENTENCES_PER_PAGE consecutive sentences, each page the range it holds.
createPageParts(n) ==
    [i \in 1..((n + SENTENCES_PER_PAGE - 1) \div SENTENCES_PER_PAGE) |->
        [from |-> (i - 1) * SENTENCES_PER_PAGE + 1,
         to   |-> Min(i * SENTENCES_PER_PAGE, n)]]

\* The parts the segment-init effect computes for a segment.
PartsOf(seg) ==
    IF seg.slide_type = "section" THEN << [from |-> 0, to |-> 0] >>
    ELSE IF seg.text # 0 THEN createPageParts(seg.text)
    ELSE << >>

\* A quiz test that looks at the index alone.
ShowingQuiz_NoQuizCheck(sub, tot, qz) == sub >= tot

\* ------------------------------------------------------------ orchestrator
ShowingQuiz(sub, tot, qz) == sub >= tot /\ Len(qz) > 0
isShowingQuiz == ShowingQuiz(subPageIndex, totalSubPages, quizzes)
currentQuizIndex == IF isShowingQuiz THEN subPageIndex - totalSubPages ELSE 0

isFirst == currentIndex = 1
isLast == currentIndex = Len(segments)
isLastPage ==
    isLast /\ ( (isShowingQuiz /\ currentQuizIndex = Len(quizzes) - 1)
                \/ (~isShowingQuiz /\ subPageIndex = totalSubPages - 1
                    /\ Len(quizzes) = 0) )
isFirstPage == isFirst /\ subPageIndex = 0

\* BookPage.handleNavigation: the segment index after a segment-level request.
handleNavigation(direction) ==
    LET newIndex == IF direction = "up" THEN currentIndex + 1 ELSE currentIndex - 1
    IN IF newIndex >= 1 /\ newIndex <= Len(segments) THEN newIndex ELSE currentIndex

\* handleInternalNavigate entering quiz mode from the last SubPage without
\* looking at the quiz set.
handleInternalNavigate_NoQuizCheck(direction, autoPlay) ==
    IF direction = "up" THEN
        IF isShowingQuiz THEN
            IF currentQuizIndex < Len(quizzes) - 1
            THEN [sub |-> subPageIndex + 1, req |-> "none", auto |-> FALSE]
            ELSE [sub |-> subPageIndex, req |-> "up", auto |-> autoPlay]
        ELSE
            IF subPageIndex < totalSubPages - 1
            THEN [sub |-> subPageIndex + 1, req |-> "none", auto |-> FALSE]
            ELSE IF TRUE
            THEN [sub |-> totalSubPages, req |-> "none", auto |-> FALSE]
            ELSE [sub |-> subPageIndex, req |-> "up", auto |-> autoPlay]
    ELSE
        IF isShowingQuiz THEN
            IF currentQuizIndex > 0
            THEN [sub |-> subPageIndex - 1, req |-> "none", auto |-> FALSE]
            ELSE [sub |-> totalSubPages - 1, req |-> "none", auto |-> FALSE]
        ELSE
            IF subPageIndex > 0
            THEN [sub |-> subPageIndex - 1, req |-> "none", auto |-> FALSE]
            ELSE [sub |-> subPageIndex, req |-> "down", auto |-> FALSE]

\* handleInternalNavigate leaving the segment from the last SubPage even
\* when questions are loaded.
handleInternalNavigate_SkipQuiz(direction, autoPlay) ==
    IF direction = "up" THEN
        IF isShowingQuiz THEN
            IF currentQuizIndex < Len(quizzes) - 1
            THEN [sub |-> subPageIndex + 1, req |-> "none", auto |-> FALSE]
            ELSE [sub |-> subPageIndex, req |-> "up", auto |-> autoPlay]
        ELSE
            IF subPageIndex < totalSubPages - 1
            THEN [sub |-> subPageIndex + 1, req |-> "none", auto |-> FALSE]
            ELSE IF FALSE
            THEN [sub |-> totalSubPages, req |-> "none", auto |-> FALSE]
            ELSE [sub |-> subPageIndex, req |-> "up", auto |-> autoPlay]
    ELSE
        IF isShowingQuiz THEN
            IF currentQuizIndex > 0
            THEN [sub |-> subPageIndex - 1, req |-> "none", auto |-> FALSE]
            ELSE [sub |-> totalSubPages - 1, req |-> "none", auto |-> FALSE]
        ELSE
            IF subPageIndex > 0
            THEN [sub |-> subPageIndex - 1, req |-> "none", auto |-> FALSE]
            ELSE [sub |-> subPageIndex, req |-> "down", auto |-> FALSE]

\* handleInternalNavigate: the new subPageIndex and the segment-level request.
handleInternalNavigate(direction, autoPlay) ==
    IF direction = "up" THEN
        IF isShowingQuiz THEN
            IF currentQuizIndex < Len(quizzes) - 1
            THEN [sub |-> subPageIndex + 1, req |-> "none", auto |-> FALSE]
            ELSE [sub |-> subPageIndex, req |-> "up", auto |-> autoPlay]
        ELSE
            IF subPageIndex < totalSubPages - 1
            THEN [sub |-> subPageIndex + 1, req |-> "none", auto |-> FALSE]
            ELSE IF Len(quizzes) > 0
            THEN [sub |-> totalSubPages, req |-> "none", auto |-> FALSE]
            ELSE [sub |-> subPageIndex, req |-> "up", auto |-> autoPlay]
    ELSE
        IF isShowingQuiz THEN
            IF currentQuizIndex > 0
            THEN [sub |-> subPageIndex - 1, req |-> "none", auto |-> FALSE]
            ELSE [sub |-> totalSubPages - 1, req |-> "none", auto |-> FALSE]
        ELSE
            IF subPageIndex > 0
            THEN [sub |-> subPageIndex - 1, req |-> "none", auto |-> FALSE]
            ELSE [sub |-> subPageIndex, req |-> "down", auto |-> FALSE]

\* The segment index after the request r of handleInternalNavigate.
Requested(r) == IF r.req = "none" THEN currentIndex ELSE handleNavigation(r.req)

\* ------------------------------------------------------------ child state
\* playTimer tells whether a 100 ms timeout that calls play() is pending.
FreshRV == [partIndex |-> 0, pageParts |-> << >>, previousSegmentIdRef |-> 0,
            isLoading |-> TRUE, playTimer |-> FALSE]
\* rendered tells whether the state set by the last handleAnswerSelect has
\* been committed to a render, so that the handlers on screen close over it.
FreshQV == [currentQuizIndex |-> 0, hasSubmitted |-> FALSE, isCorrect |-> FALSE,
            autoCloseTimer |-> 0, rendered |-> TRUE]

\* idle records the last submission as long as the user has done nothing
\* since: the question j it was made on, the number m of questions, how many
\* times a timer has moved the question index since (adv) and how many times
\* a timer has called onComplete since (done).  j = -1 when there is none.
NoIdle == [j |-> -1, m |-> 0, adv |-> 0, done |-> 0]

\* reported holds the questions the mounted QuizView has passed to onSubmit,
\* dup tells whether the last onSubmit call repeated one of them.
NoHistory == [reported |-> {}, dup |-> FALSE, idle |-> NoIdle]

FirstEvent ==
    [act |-> "Init", dir |-> "-", req |-> "none", auto |-> FALSE, seg |-> 0, q |-> 0,
     live |-> FALSE, pause |-> FALSE, outcome |-> "-", calls |-> << >>,
     autoPlayNextSegment |-> FALSE]

Event(act, dir, req) ==
    [FirstEvent EXCEPT !.act = act, !.dir = dir, !.req = req]

\* The history after the step that produced last', in sessions that record it.
Track ==
    LET submitted == last'.act = "QuizAnswer" /\ last'.calls = << "onSubmit" >>
        quiz == quizzes[last'.q + 1]
        kept == IF view = "quiz" /\ view' = "quiz" THEN history.reported ELSE {}
        idle == history.idle
    IN IF ~session.track THEN UNCHANGED history
       ELSE history' =
              [reported |-> IF submitted THEN kept \cup {quiz} ELSE kept,
               dup |-> submitted /\ quiz \in kept,
               idle |-> IF submitted
                        THEN [j |-> last'.q, m |-> Len(quizzes), adv |-> 0, done |-> 0]
                        ELSE IF last'.act \in {"QuizAnswer", "QuizNav", "ReadingTap"}
                        THEN NoIdle
                        ELSE IF last'.act = "TimerFire" /\ idle.j >= 0
                        THEN IF last'.calls = << "onComplete" >>
                             THEN [idle EXCEPT !.done = @ + 1]
                             ELSE IF last'.live
                             THEN [idle EXCEPT !.adv = @ + 1]
                             ELSE idle
                        ELSE idle]

\* QuizView's unmount: the cleanup of the [autoCloseTimer] effect clears the
\* timer held in autoCloseTimer; every other pending timeout stays scheduled
\* and now belongs to an unmounted component.  Of those, a timeout scheduled
\* on the last question will call onComplete; one scheduled on another
\* question will only call setCurrentQuizIndex on the unmounted component,
\* which does nothing, so it is not tracked any further.
QuizUnmount(q, tm) ==
    { [t EXCEPT !.live = FALSE] :
        t \in { u \in tm : u.id # q.autoCloseTimer /\ u.q = u.n - 1 } }

\* The commit that follows an event: the orchestrator's new state, the child
\* it renders (ReadingView unless isShowingQuiz), mounting and unmounting, and
\* the passive effects the commit schedules.
Commit(idx, sub, tot, qz, rv1, qv1, tm) ==
    LET newView == IF ShowingQuiz(sub, tot, qz) THEN "quiz" ELSE "reading"
        segChanged == idx # currentIndex
    IN /\ currentIndex' = idx
       /\ subPageIndex' = sub
       /\ totalSubPages' = tot
       /\ quizzes' = qz
       /\ view' = newView
       /\ rv' = IF newView = "reading" /\ view = "reading" THEN rv1 ELSE FreshRV
       /\ qv' = IF newView = "quiz" /\ view = "quiz" THEN qv1 ELSE FreshQV
       /\ timers' = IF view = "quiz" /\ newView # "quiz" THEN QuizUnmount(qv1, tm)
                    ELSE tm
       /\ pendingEffects' =
            (IF newView = "reading" /\ (view # "reading" \/ segChanged)
             THEN {"rvInit"} ELSE {})
            \cup (IF segChanged THEN {"loadQuizzes"} ELSE {})

\* ------------------------------------------------------------------- Init
InitAudio ==
    /\ mounted = FALSE /\ audioUrl = 0 /\ enabled = TRUE
    /\ sound = 0 /\ isLoading = FALSE /\ isPlaying = FALSE
    /\ loads = << >> /\ loaded = {} /\ released = {}
    /\ transport = [snd |-> 0, past |-> FALSE, finishes |-> 0]

\* No text has been paginated and no question displayed.
NoPage == [text |-> << >>, perPage |-> 0, parts |-> << >>, partIndex |-> 0,
           signal |-> "none"]
NoAnswers == [id |-> 0, list |-> << >>, shown |-> << >>]
NoPosition == -1
NoPlayback == [status |-> [isPlaying |-> FALSE, positionMillis |-> 0],
               startPosition |-> NoPosition, act |-> "-", ops |-> << >>]
NoTiming == [start |-> NoPosition, end |-> NoPosition]
NoAlignment == [text |-> << >>, present |-> FALSE, segments |-> << >>,
                timing |-> NoTiming, done |-> FALSE]
\* No ReadingView is being followed for autoplay.
NoAutoplayTimer == [seg |-> 0, parts |-> 0, part |-> 0]
NoAutoplay == [idx |-> 0, seg |-> 0, trigger |-> FALSE, parts |-> 0, partIndex |-> 0,
               ref |-> 0, playTimer |-> NoAutoplayTimer, resetTimer |-> FALSE,
               deps |-> << >>, resetDeps |-> FALSE, dirty |-> FALSE, hint |-> 0,
               played |-> 0, enableAudio |-> TRUE, act |-> "-"]
InitUnits ==
    /\ page = NoPage
    /\ answers = NoAnswers
    /\ playback = NoPlayback
    /\ alignment = NoAlignment /\ autoplay = NoAutoplay

\* BookPage after the book has loaded: the first segment is current, the
\* ReadingView is mounted and the effects of the first commit are pending.
InitNav ==
    /\ \E s \in Sessions : segments = s[1] /\ userId = s[2]
    /\ currentIndex = 1
    /\ subPageIndex = 0
    /\ totalSubPages = 1
    /\ quizzes = << >>
    /\ fetches = {}
    /\ view = "reading"
    /\ rv = FreshRV
    /\ qv = FreshQV
    /\ timers = {}
    /\ pendingEffects = {"rvInit", "loadQuizzes"}
    /\ last = FirstEvent
    /\ history = NoHistory

\* A session in which React commits the re-render asked for by a press
\* before the next press is handled.
Init ==
    /\ InitNav /\ InitAudio /\ InitUnits
    /\ session = [timerCap |-> MaxTimers, lag |-> FALSE, track |-> FALSE]

\* A session in which two presses may be handled before the re-render, with
\* room for a second outstanding timeout, and whose history is recorded.
InitQuiz ==
    /\ InitNav /\ InitAudio /\ InitUnits
    /\ session = [timerCap |-> MaxQuizTimers, lag |-> TRUE, track |-> TRUE]

\* ---------------------------------------------------------------- effects
\* A segment-init effect that keeps partIndex when the segment changes.
SegmentInit_KeepsIndex ==
    LET seg == segments[currentIndex]
        segmentChanged == rv.previousSegmentIdRef # currentIndex
        parts == PartsOf(seg)
    IN IF ~segmentChanged /\ Len(rv.pageParts) > 0
       THEN [rv |-> rv, rep |-> FALSE, sub |-> 0, tot |-> 0, pause |-> FALSE]
       ELSE [rv |-> [partIndex |-> rv.partIndex,
                     pageParts |-> parts,
                     previousSegmentIdRef |-> currentIndex,
                     isLoading |-> FALSE,
                     playTimer |-> rv.playTimer],
             rep |-> segmentChanged \/ Len(parts) # Len(rv.pageParts),
             sub |-> IF segmentChanged THEN 0 ELSE rv.partIndex,
             tot |-> Len(parts),
             pause |-> rv.previousSegmentIdRef # 0 /\ segmentChanged]

\* A segment-init effect that takes every run for a segment change.
SegmentInit_TakesEveryRunAsNew ==
    LET seg == segments[currentIndex]
        segmentChanged == TRUE
        parts == PartsOf(seg)
    IN IF ~segmentChanged /\ Len(rv.pageParts) > 0
       THEN [rv |-> rv, rep |-> FALSE, sub |-> 0, tot |-> 0, pause |-> FALSE]
       ELSE [rv |-> [partIndex |-> IF segmentChanged THEN 0 ELSE rv.partIndex,
                     pageParts |-> parts,
                     previousSegmentIdRef |-> currentIndex,
                     isLoading |-> FALSE,
                     playTimer |-> rv.playTimer],
             rep |-> segmentChanged \/ Len(parts) # Len(rv.pageParts),
             sub |-> IF segmentChanged THEN 0 ELSE rv.partIndex,
             tot |-> Len(parts),
             pause |-> rv.previousSegmentIdRef # 0 /\ segmentChanged]

\* ReadingView's segment-init effect: the new ReadingView state and the
\* (subPageIndex, totalSubPages) it reports, rep = FALSE when it reports none.
SegmentInit ==
    LET seg == segments[currentIndex]
        segmentChanged == rv.previousSegmentIdRef # currentIndex
        parts == PartsOf(seg)
    IN IF ~segmentChanged /\ Len(rv.pageParts) > 0
       THEN [rv |-> rv, rep |-> FALSE, sub |-> 0, tot |-> 0, pause |-> FALSE]
       ELSE [rv |-> [partIndex |-> IF segmentChanged THEN 0 ELSE rv.partIndex,
                     pageParts |-> parts,
                     previousSegmentIdRef |-> currentIndex,
                     isLoading |-> FALSE,
                     playTimer |-> rv.playTimer],
             rep |-> segmentChanged \/ Len(parts) # Len(rv.pageParts),
             sub |-> IF segmentChanged THEN 0 ELSE rv.partIndex,
             tot |-> Len(parts),
             pause |-> rv.previousSegmentIdRef # 0 /\ segmentChanged]

\* The passive effects of the last commit, children first: ReadingView's
\* segment-init effect, then the orchestrator's loadQuizzes effect, which
\* starts a fetch (or empties the quiz set) and resets subPageIndex to 0.
FlushEffects ==
    /\ pendingEffects # {}
    /\ LET seg == segments[currentIndex]
           si == IF "rvInit" \in pendingEffects THEN SegmentInit
                 ELSE [rv |-> rv, rep |-> FALSE, sub |-> 0, tot |-> 0, pause |-> FALSE]
           load == "loadQuizzes" \in pendingEffects
           gated == seg.slide_type # "text" \/ ~userId
           sub1 == IF load THEN 0 ELSE IF si.rep THEN si.sub ELSE subPageIndex
           tot1 == IF si.rep THEN si.tot ELSE totalSubPages
           qz1 == IF load /\ gated THEN << >> ELSE quizzes
       IN /\ fetches' = IF load /\ ~gated
                        THEN fetches \cup {[seg |-> currentIndex]}
                        ELSE fetches
          /\ Commit(currentIndex, sub1, tot1, qz1, si.rv, qv, timers)
          /\ last' = [Event("FlushEffects", "-", "none") EXCEPT !.pause = si.pause]
    /\ Track
    /\ UNCHANGED <<unitVars, session, segments, userId, audioVars>>

\* BookPage renders again without a segment change (a setting is toggled,
\* the notes popup opens): it hands ReadingView a new onSubPageChanged
\* function, so the segment-init effect runs again on the same segment.
ReadingRerender ==
    /\ view = "reading"
    /\ pendingEffects = {}
    /\ LET si == SegmentInit
       IN /\ Commit(currentIndex,
                    IF si.rep THEN si.sub ELSE subPageIndex,
                    IF si.rep THEN si.tot ELSE totalSubPages,
                    quizzes, si.rv, qv, timers)
          /\ last' = [Event("ReadingRerender", "-", "none") EXCEPT
                         !.pause = si.pause,
                         !.calls = IF si.rep THEN << "onSubPageChanged" >> ELSE << >>]
    /\ Track
    /\ UNCHANGED <<unitVars, session, segments, userId, fetches, audioVars>>

\* ----------------------------------------------------------- ReadingView
\* BookPage's enableAudio state as passed to ReadingView: it starts true and
\* the session leaves the audio setting alone.
enableAudio == TRUE

\* A forward path that pauses the transport whatever its options say.
shouldPauseAudio_Always(keepAudioPlaying) == TRUE

\* shouldPauseAudio of handleNavigation.
shouldPauseAudio(keepAudioPlaying) == ~(keepAudioPlaying /\ enableAudio)

\* handleNavigation delegating upward without the keepAudioPlaying option.
ReadingNavigate_DropsAutoPlay(act, direction, keepAudioPlaying) ==
    LET n == Len(rv.pageParts)
        resume == keepAudioPlaying /\ enableAudio
        ev == [Event(act, direction, "none") EXCEPT
                  !.pause = shouldPauseAudio(keepAudioPlaying)]
    IN /\ view = "reading"
       /\ pendingEffects = {}
       /\ IF direction = "up" /\ rv.partIndex < n - 1 THEN
             /\ Commit(currentIndex, rv.partIndex + 1, n, quizzes,
                       [rv EXCEPT !.partIndex = rv.partIndex + 1,
                                  !.playTimer = @ \/ resume], qv, timers)
             /\ last' = ev
          ELSE IF direction = "down" /\ rv.partIndex > 0 THEN
             /\ Commit(currentIndex, rv.partIndex - 1, n, quizzes,
                       [rv EXCEPT !.partIndex = rv.partIndex - 1,
                                  !.playTimer = @ \/ resume], qv, timers)
             /\ last' = ev
          ELSE
             LET r == handleInternalNavigate(direction, FALSE)
             IN /\ Commit(Requested(r), r.sub, totalSubPages, quizzes, rv, qv, timers)
                /\ last' = [ev EXCEPT !.req = r.req, !.auto = r.auto,
                                      !.calls = << "onNavigate" >>,
                                      !.autoPlayNextSegment = FALSE]
       /\ Track
       /\ UNCHANGED <<unitVars, session, segments, userId, fetches, audioVars>>

\* ReadingView.handleNavigation(direction, {keepAudioPlaying}).  Every segment
\* of the modelled book has an audio_url.
ReadingNavigate(act, direction, keepAudioPlaying) ==
    LET n == Len(rv.pageParts)
        resume == keepAudioPlaying /\ enableAudio
        ev == [Event(act, direction, "none") EXCEPT
                  !.pause = shouldPauseAudio(keepAudioPlaying)]
    IN /\ view = "reading"
       /\ pendingEffects = {}
       /\ IF direction = "up" /\ rv.partIndex < n - 1 THEN
             /\ Commit(currentIndex, rv.partIndex + 1, n, quizzes,
                       [rv EXCEPT !.partIndex = rv.partIndex + 1,
                                  !.playTimer = @ \/ resume], qv, timers)
             /\ last' = ev
          ELSE IF direction = "down" /\ rv.partIndex > 0 THEN
             /\ Commit(currentIndex, rv.partIndex - 1, n, quizzes,
                       [rv EXCEPT !.partIndex = rv.partIndex - 1,
                                  !.playTimer = @ \/ resume], qv, timers)
             /\ last' = ev
          ELSE
             LET r == handleInternalNavigate(direction, keepAudioPlaying)
             IN /\ Commit(Requested(r), r.sub, totalSubPages, quizzes, rv, qv, timers)
                /\ last' = [ev EXCEPT !.req = r.req, !.auto = r.auto,
                                      !.calls = << "onNavigate" >>,
                                      !.autoPlayNextSegment = keepAudioPlaying]
       /\ Track
       /\ UNCHANGED <<unitVars, session, segments, userId, fetches, audioVars>>

\* A tap on ReadingView's next / previous button (disabled at the book's ends).
ReadingTap ==
    \E direction \in {"up", "down"} :
        /\ direction = "up" => ~(isLastPage /\ rv.partIndex = Len(rv.pageParts) - 1)
        /\ direction = "down" => ~(isFirstPage /\ rv.partIndex = 0)
        /\ ReadingNavigate("ReadingTap", direction, FALSE)

\* The audio transport's boundary-reached signal (handleAudioFinish): the
\* forward path with keepAudioPlaying = true.  Every segment of the modelled
\* book has narration and enable_audio is on, so the signal may arrive
\* whenever a ReadingView is displayed.
AudioFinish ==
    ReadingNavigate("AudioFinish", "up", TRUE)

\* The 100 ms timeout set by handleNavigation on the keepAudioPlaying path
\* fires: audioPlayerRef.current?.play().
PlayTimerFire ==
    /\ view = "reading"
    /\ pendingEffects = {}
    /\ rv.playTimer
    /\ Commit(currentIndex, subPageIndex, totalSubPages, quizzes,
              [rv EXCEPT !.playTimer = FALSE], qv, timers)
    /\ last' = [Event("PlayTimerFire", "-", "none") EXCEPT !.calls = << "play" >>]
    /\ Track
    /\ UNCHANGED <<unitVars, session, segments, userId, fetches, audioVars>>

\* ------------------------------------------------------------ quiz loading
\* A loadQuizzes call resumes after its queries (the exercises query, then
\* the multiple_choice_quizzes query; nothing is written between the two).
\* Rows are applied with setQuizzes; no rows, or a query that failed, ends the
\* call and leaves the quiz set as it is.
LoadQuizzesDone ==
    \E f \in fetches, outcome \in {"data", "error"} :
        /\ pendingEffects = {}
        /\ qv.rendered
        /\ fetches' = fetches \ {f}
        /\ Commit(currentIndex, subPageIndex, totalSubPages,
                  IF outcome = "data" /\ segments[f.seg].bank > 0
                  THEN QuizBank(f.seg) ELSE quizzes,
                  rv, qv, timers)
        /\ last' = [Event("LoadQuizzesDone", "-", "none") EXCEPT
                       !.seg = f.seg,
                       !.outcome = IF outcome = "error" THEN "error"
                                   ELSE IF segments[f.seg].bank > 0 THEN "rows"
                                   ELSE "empty"]
        /\ Track
        /\ UNCHANGED <<unitVars, session, segments, userId, audioVars>>

\* --------------------------------------------------------------- QuizView
\* currentQuiz = quizzes[currentQuizIndex] is defined.
HasCurrentQuiz == qv.currentQuizIndex >= 0 /\ qv.currentQuizIndex < Len(quizzes)

\* setCurrentQuizIndex followed by the reset-on-question-change effect, which
\* clears selectedAnswer / hasSubmitted / isCorrect and the autoCloseTimer.
QuizMove(newIndex, tm) ==
    [qv |-> [FreshQV EXCEPT !.currentQuizIndex = newIndex],
     tm |-> { t \in tm : t.id # qv.autoCloseTimer }]

FreeTimerIds ==
    { i \in 1..session.timerCap : i # qv.autoCloseTimer /\ \A t \in timers : t.id # i }

\* The guard of handleAnswerSelect: if (hasSubmitted) return.  hasSubmitted
\* is the value of the render the handler was created in.
AlreadySubmitted == qv.hasSubmitted /\ qv.rendered

\* handleAnswerSelect(answer), correct iff answer = currentQuiz.correct_answer.
QuizAnswer ==
    \E correct \in BOOLEAN :
        /\ view = "quiz"
        /\ pendingEffects = {}
        /\ HasCurrentQuiz
        /\ IF AlreadySubmitted THEN
              /\ Commit(currentIndex, subPageIndex, totalSubPages, quizzes, rv,
                        qv, timers)
              /\ last' = [Event("QuizAnswer", "-", "none") EXCEPT
                             !.q = qv.currentQuizIndex,
                             !.seg = quizzes[qv.currentQuizIndex + 1].seg]
           ELSE
              /\ FreeTimerIds # {}
              /\ LET free == FreeTimerIds
                     id == CHOOSE i \in free : \A j \in free : i <= j
                     t == [id |-> id, q |-> qv.currentQuizIndex, n |-> Len(quizzes),
                           seg |-> currentIndex, long |-> ~correct, live |-> TRUE]
                     quiz == quizzes[qv.currentQuizIndex + 1]
                 IN /\ Commit(currentIndex, subPageIndex, totalSubPages, quizzes, rv,
                              [qv EXCEPT !.hasSubmitted = TRUE, !.isCorrect = correct,
                                         !.autoCloseTimer = IF correct THEN @ ELSE id,
                                         !.rendered = ~session.lag],
                              timers \cup {t})
                    /\ last' = [Event("QuizAnswer", "-", "none") EXCEPT
                                   !.q = qv.currentQuizIndex,
                                   !.seg = quiz.seg,
                                   !.calls = << "onSubmit" >>]
        /\ Track
        /\ UNCHANGED <<unitVars, session, segments, userId, fetches, audioVars>>

\* React commits the re-render that handleAnswerSelect's setState calls asked
\* for; it does so before any later task runs.
QuizRender ==
    /\ view = "quiz"
    /\ ~qv.rendered
    /\ qv' = [qv EXCEPT !.rendered = TRUE]
    /\ last' = Event("QuizRender", "-", "none")
    /\ UNCHANGED <<unitVars, session, segments, userId, currentIndex, subPageIndex,
                   totalSubPages, quizzes, fetches, view, rv, timers,
                   pendingEffects, audioVars>>
    /\ Track

\* A next button that always moves the question index.
handleNavButtonClick_AlwaysMoves(direction) ==
    IF direction = "up"
    THEN [index |-> qv.currentQuizIndex + 1, calls |-> << >>]
    ELSE IF qv.currentQuizIndex > 0
         THEN [index |-> qv.currentQuizIndex - 1, calls |-> << >>]
         ELSE [index |-> qv.currentQuizIndex, calls |-> << "onNavigate" >>]

\* handleNavButtonClick(direction): the question index it sets and the
\* callbacks of the owner it invokes.
handleNavButtonClick(direction) ==
    IF direction = "up"
    THEN IF qv.currentQuizIndex < Len(quizzes) - 1
         THEN [index |-> qv.currentQuizIndex + 1, calls |-> << >>]
         ELSE [index |-> qv.currentQuizIndex, calls |-> << "onComplete" >>]
    ELSE IF qv.currentQuizIndex > 0
         THEN [index |-> qv.currentQuizIndex - 1, calls |-> << >>]
         ELSE [index |-> qv.currentQuizIndex, calls |-> << "onNavigate" >>]

\* A tap on the previous / next button of the QuizView.
QuizNav ==
    \E direction \in {"up", "down"} :
        /\ view = "quiz"
        /\ pendingEffects = {}
        /\ qv.rendered
        /\ HasCurrentQuiz
        /\ direction = "down" => ~(isFirstPage /\ qv.currentQuizIndex = 0)
        /\ LET h == handleNavButtonClick(direction)
               ev == [Event("QuizNav", direction, "none") EXCEPT
                         !.q = qv.currentQuizIndex, !.calls = h.calls]
           IN IF h.calls = << >> THEN
                 LET m == QuizMove(h.index, timers)
                 IN /\ Commit(currentIndex, subPageIndex, totalSubPages, quizzes,
                              rv, m.qv, m.tm)
                    /\ last' = ev
              ELSE IF h.calls[1] = "onComplete" THEN
                 /\ Commit(handleNavigation("up"), subPageIndex, totalSubPages,
                           quizzes, rv, qv, timers)
                 /\ last' = [ev EXCEPT !.req = "up"]
              ELSE
                 \* onNavigate('down')
                 LET r == handleInternalNavigate("down", FALSE)
                 IN /\ Commit(Requested(r), r.sub, totalSubPages, quizzes, rv, qv,
                              timers)
                    /\ last' = [ev EXCEPT !.req = r.req]
        /\ Track
        /\ UNCHANGED <<unitVars, session, segments, userId, fetches, audioVars>>

\* The callback of an auto-advance timeout scheduled by handleAnswerSelect.
\* It reads currentQuizIndex and quizzes.length from the render that scheduled
\* it (t.q, t.n); its setCurrentQuizIndex acts on the QuizView that scheduled
\* it, and does nothing once that QuizView is unmounted.
TimerFire ==
    \E t \in timers :
        /\ pendingEffects = {}
        /\ qv.rendered
        /\ LET rest == timers \ {t}
               ev == [Event("TimerFire", "-", "none") EXCEPT
                         !.q = t.q, !.seg = t.seg, !.live = t.live]
           IN IF t.q = t.n - 1 THEN
                 /\ Commit(handleNavigation("up"), subPageIndex, totalSubPages,
                           quizzes, rv, qv, rest)
                 /\ last' = [ev EXCEPT !.req = "up", !.calls = << "onComplete" >>]
              ELSE IF t.live THEN
                 LET m == QuizMove(qv.currentQuizIndex + 1, rest)
                 IN /\ Commit(currentIndex, subPageIndex, totalSubPages, quizzes,
                              rv, m.qv, m.tm)
                    /\ last' = ev
              ELSE
                 /\ Commit(currentIndex, subPageIndex, totalSubPages, quizzes,
                           rv, qv, rest)
                 /\ last' = ev
        /\ Track
        /\ UNCHANGED <<unitVars, session, segments, userId, fetches, audioVars>>

\* ------------------------------------------------------------ AudioPlayer
\* Audio URLs are numbered 1..NumUrls, 0 stands for a missing URL.  Even
\* numbers are storage paths (no "http" prefix) that go through getSignedUrl.
needsSigning(url) == url % 2 = 0

\* A continuation that does not look at isMounted.
StillMounted_Unchecked(l) == TRUE

\* The isMounted flag of one run of the load effect, as its continuation
\* reads it.
StillMounted(l) == l.isMounted

\* sound.unloadAsync(): releases the resource if the sound is loaded and is a
\* no-op otherwise.  The result is the pair of sets (loaded, released).
unloadAsync(s, ld, rl) ==
    IF s \in ld THEN [loaded |-> ld \ {s}, released |-> rl \cup {s}]
    ELSE [loaded |-> ld, released |-> rl]

\* The run of the load effect whose cleanup has not run yet, 0 if none.
CurrentLoad ==
    IF \E i \in DOMAIN loads : loads[i].isMounted
    THEN CHOOSE i \in DOMAIN loads : loads[i].isMounted
    ELSE 0

\* The synchronous part of loadSound for props (url, en) in a render whose
\* sound state is old.  A run that creates a sound object names it by the
\* run's position in loads.
loadSound(url, en, old) ==
    LET early == ~en \/ url = 0
    IN [url |-> url, old |-> old, isMounted |-> TRUE, alive |-> TRUE,
        hasSound |-> ~early,
        pc |-> IF early THEN (IF old # 0 THEN "disabledUnload" ELSE "done")
               ELSE IF needsSigning(url) THEN "resolve" ELSE "load",
        cancelledAt |-> "-", setAfterCancel |-> FALSE,
        attached |-> FALSE, failed |-> FALSE]

\* The cleanup of run i: clears isMounted and unloads currentSoundObject, or
\* the sound of the run's closure when the run created none.
Cleanup(i, ld, rl) ==
    LET l == loads[i]
    IN IF l.hasSound THEN unloadAsync(i, ld, rl)
       ELSE IF l.old # 0 THEN unloadAsync(l.old, ld, rl)
       ELSE [loaded |-> ld, released |-> rl]

Cancelled(l, unmount) ==
    [l EXCEPT !.isMounted = FALSE, !.cancelledAt = l.pc,
              !.alive = IF unmount THEN FALSE ELSE @]

\* The effect run for a new render: the early path unloads the closure's
\* sound, the loading path sets isLoading.
RunEffect(url, en, old, ls, ld, rl) ==
    LET l == loadSound(url, en, old)
        u == IF l.pc = "disabledUnload" THEN unloadAsync(old, ld, rl)
             ELSE [loaded |-> ld, released |-> rl]
    IN /\ loads' = Append(ls, l)
       /\ loaded' = u.loaded
       /\ released' = u.released
       /\ isLoading' = l.hasSound

\* The AudioPlayer mounts with an audio URL (its owner renders it only then).
AudioMount ==
    \E url \in 1..NumUrls, en \in BOOLEAN :
        /\ ~mounted
        /\ Len(loads) < MaxLoads
        /\ mounted' = TRUE /\ audioUrl' = url /\ enabled' = en
        /\ sound' = 0 /\ isPlaying' = FALSE
        /\ RunEffect(url, en, 0, loads, loaded, released)
        /\ UNCHANGED <<unitVars, navVars, transport>>

\* audioUrl or enabled changes: the cleanup of the current run, then the
\* effect of the new render, whose closure holds the sound of that render.
AudioProps ==
    \E url \in 1..NumUrls, en \in BOOLEAN :
        /\ mounted
        /\ <<url, en>> # <<audioUrl, enabled>>
        /\ Len(loads) < MaxLoads
        /\ LET i == CurrentLoad
               c == Cleanup(i, loaded, released)
           IN RunEffect(url, en, sound,
                        [loads EXCEPT ![i] = Cancelled(@, FALSE)],
                        c.loaded, c.released)
        /\ audioUrl' = url /\ enabled' = en
        /\ sound' = 0 /\ isPlaying' = FALSE
        /\ UNCHANGED <<unitVars, navVars, transport, mounted>>

\* The AudioPlayer unmounts: the cleanup of the current run; its state is
\* gone and later setState calls of its runs have no effect.
AudioUnmount ==
    /\ mounted
    /\ LET i == CurrentLoad
           c == Cleanup(i, loaded, released)
       IN /\ loads' = [j \in DOMAIN loads |->
                          IF j = i THEN Cancelled(loads[j], TRUE)
                          ELSE [loads[j] EXCEPT !.alive = FALSE]]
          /\ loaded' = c.loaded
          /\ released' = c.released
    /\ mounted' = FALSE
    /\ sound' = 0 /\ isLoading' = FALSE /\ isPlaying' = FALSE
    /\ UNCHANGED <<unitVars, navVars, transport, audioUrl, enabled>>

\* A catch block that leaves the loading indicator on.
LoadFailed_KeepsLoading(i) ==
    LET l == loads[i]
        writes == StillMounted(l) /\ l.alive
    IN /\ loads' = [loads EXCEPT ![i].pc = "done",
                                 ![i].setAfterCancel = writes /\ ~l.isMounted,
                                 ![i].failed = TRUE]
       /\ sound' = IF writes THEN 0 ELSE sound
       /\ isLoading' = isLoading
       /\ isPlaying' = IF writes THEN FALSE ELSE isPlaying
       /\ LET u == unloadAsync(i, loaded, released)
          IN loaded' = u.loaded /\ released' = u.released

\* The catch block of loadSound for run i.
LoadFailed(i) ==
    LET l == loads[i]
        writes == StillMounted(l) /\ l.alive
    IN /\ loads' = [loads EXCEPT ![i].pc = "done",
                                 ![i].setAfterCancel = writes /\ ~l.isMounted,
                                 ![i].failed = TRUE]
       /\ sound' = IF writes THEN 0 ELSE sound
       /\ isLoading' = IF writes THEN FALSE ELSE isLoading
       /\ isPlaying' = IF writes THEN FALSE ELSE isPlaying
       /\ LET u == unloadAsync(i, loaded, released)
          IN loaded' = u.loaded /\ released' = u.released

\* getSignedUrl resolves for run i, with a URL or with null.
SignedUrlDone ==
    \E i \in DOMAIN loads, ok \in BOOLEAN :
        /\ loads[i].pc = "resolve"
        /\ IF ok
           THEN /\ loads' = [loads EXCEPT ![i].pc = "load"]
                /\ UNCHANGED <<sound, isLoading, isPlaying, loaded, released>>
           ELSE LoadFailed(i)
        /\ UNCHANGED <<unitVars, navVars, transport, mounted, audioUrl, enabled>>

\* loadAsync settles for run i.
LoadDone ==
    \E i \in DOMAIN loads, ok \in BOOLEAN :
        /\ loads[i].pc = "load"
        /\ LET l == loads[i]
               ld == loaded \cup {i}
           IN IF ~ok THEN LoadFailed(i)
              ELSE IF StillMounted(l) THEN
                 IF l.old # 0
                 THEN LET u == unloadAsync(l.old, ld, released)
                      IN /\ loads' = [loads EXCEPT ![i].pc = "unloadOld"]
                         /\ loaded' = u.loaded /\ released' = u.released
                         /\ UNCHANGED <<sound, isLoading, isPlaying>>
                 ELSE /\ loads' = [loads EXCEPT ![i].pc = "done",
                                     ![i].setAfterCancel = l.alive /\ ~l.isMounted,
                                     ![i].attached = l.alive]
                      /\ sound' = IF l.alive THEN i ELSE sound
                      /\ isLoading' = IF l.alive THEN FALSE ELSE isLoading
                      /\ isPlaying' = IF l.alive THEN FALSE ELSE isPlaying
                      /\ loaded' = ld /\ UNCHANGED released
              ELSE LET u == unloadAsync(i, ld, released)
                   IN /\ loads' = [loads EXCEPT ![i].pc = "done"]
                      /\ loaded' = u.loaded /\ released' = u.released
                      /\ UNCHANGED <<sound, isLoading, isPlaying>>
        /\ UNCHANGED <<unitVars, navVars, transport, mounted, audioUrl, enabled>>

\* The await on the old sound's unloadAsync returns in run i: the new sound
\* is attached without a second look at isMounted.
UnloadOldDone ==
    \E i \in DOMAIN loads :
        /\ loads[i].pc = "unloadOld"
        /\ LET l == loads[i]
           IN /\ loads' = [loads EXCEPT ![i].pc = "done",
                              ![i].setAfterCancel = l.alive /\ ~l.isMounted,
                              ![i].attached = l.alive]
              /\ sound' = IF l.alive THEN i ELSE sound
              /\ isLoading' = IF l.alive THEN FALSE ELSE isLoading
              /\ isPlaying' = IF l.alive THEN FALSE ELSE isPlaying
        /\ UNCHANGED <<unitVars, navVars, transport, mounted, audioUrl, enabled, loaded, released>>

\* The await of the early path (audio disabled or no URL) returns in run i.
DisabledUnloadDone ==
    \E i \in DOMAIN loads :
        /\ loads[i].pc = "disabledUnload"
        /\ LET l == loads[i]
           IN /\ loads' = [loads EXCEPT ![i].pc = "done",
                              ![i].setAfterCancel = l.alive /\ ~l.isMounted]
              /\ sound' = IF l.alive THEN 0 ELSE sound
              /\ isPlaying' = IF l.alive THEN FALSE ELSE isPlaying
        /\ UNCHANGED <<unitVars, navVars, transport, mounted, audioUrl, enabled, isLoading,
                       loaded, released>>

\* The play/pause button.  pauseAsync and playAsync throw on a sound that is
\* not loaded, which the handler catches without touching isPlaying.  Playing
\* starts with a seek to startPosition, which is before the end boundary.
togglePlayback ==
    /\ mounted /\ enabled /\ audioUrl # 0
    /\ sound # 0 /\ ~isLoading
    /\ isPlaying' = IF sound \in loaded THEN ~isPlaying ELSE isPlaying
    /\ transport' = IF sound \in loaded /\ ~isPlaying /\ transport.snd = sound
                    THEN [transport EXCEPT !.past = FALSE, !.finishes = 0]
                    ELSE transport
    /\ UNCHANGED <<unitVars, navVars, mounted, audioUrl, enabled, sound, isLoading,
                   loads, loaded, released>>

\* The position of the playing sound reaches endPosition (endPosition is
\* non-null): a crossing of the end boundary.
BoundaryReached ==
    /\ mounted /\ sound # 0 /\ sound \in loaded /\ isPlaying
    /\ ~(transport.snd = sound /\ transport.past)
    /\ transport' = [snd |-> sound, past |-> TRUE, finishes |-> 0]
    /\ UNCHANGED <<unitVars, navVars, mounted, audioUrl, enabled, sound, isLoading,
                   isPlaying, loads, loaded, released>>

\* statusUpdateCallback on a tick with status.isPlaying, endPosition non-null
\* and positionMillis >= endPosition * 1000: it calls onFinish and leaves the
\* transport playing.
StatusTick ==
    /\ mounted /\ sound # 0 /\ sound \in loaded /\ isPlaying
    /\ transport.snd = sound /\ transport.past
    /\ transport.finishes < MaxTicks
    /\ transport' = [transport EXCEPT !.finishes = @ + 1]
    /\ UNCHANGED <<unitVars, navVars, mounted, audioUrl, enabled, sound, isLoading,
                   isPlaying, loads, loaded, released>>

\* The owner answers onFinish with a new (startPosition, endPosition) window
\* that begins where the old one ended.
WindowUpdate ==
    /\ mounted /\ transport.snd = sound /\ transport.past
    /\ transport.finishes > 0
    /\ transport' = [transport EXCEPT !.past = FALSE, !.finishes = 0]
    /\ UNCHANGED <<unitVars, navVars, mounted, audioUrl, enabled, sound, isLoading,
                   isPlaying, loads, loaded, released>>

\* ------------------------------------------------------------- pagination
\* The characters of a text: a letter, two sentence terminators and a blank.
Alphabet == {"a", ".", "?", " "}

\* The character classes of sentenceRegex = /[.!?]+[\s\n]+/.
IsTerminator(c) == c \in {".", "!", "?"}
IsWhitespace(c) == c \in {" ", "\n"}

RECURSIVE SkipTerminators(_, _)
SkipTerminators(text, i) ==
    IF i <= Len(text) /\ IsTerminator(text[i]) THEN SkipTerminators(text, i + 1) ELSE i

RECURSIVE SkipWhitespace(_, _)
SkipWhitespace(text, i) ==
    IF i <= Len(text) /\ IsWhitespace(text[i]) THEN SkipWhitespace(text, i + 1) ELSE i

\* Where a match of sentenceRegex that starts at position q ends (the first
\* position after it), 0 when there is no match at q.
MatchEnd(text, q) ==
    IF q <= Len(text) /\ IsTerminator(text[q])
    THEN LET e == SkipTerminators(text, q)
         IN IF e <= Len(text) /\ IsWhitespace(text[e]) THEN SkipWhitespace(text, e) ELSE 0
    ELSE 0

\* String.prototype.split(sentenceRegex): p is where the current piece
\* starts, q where the next match is looked for.
RECURSIVE split(_, _, _)
split(text, p, q) ==
    IF q > Len(text) THEN << SubSeq(text, p, Len(text)) >>
    ELSE IF MatchEnd(text, q) # 0
    THEN << SubSeq(text, p, q - 1) >> \o split(text, MatchEnd(text, q), MatchEnd(text, q))
    ELSE split(text, p, q + 1)

\* String.prototype.trim.
RECURSIVE trimEnd(_)
trimEnd(s) ==
    IF Len(s) > 0 /\ IsWhitespace(s[Len(s)]) THEN trimEnd(SubSeq(s, 1, Len(s) - 1)) ELSE s

trim(s) == trimEnd(SubSeq(s, SkipWhitespace(s, 1), Len(s)))

\* String.prototype.indexOf(s, from) and substring(a, b), offsets from 0.
indexOf(text, s, from) ==
    LET hits == { i \in from..(Len(text) - Len(s)) : SubSeq(text, i + 1, i + Len(s)) = s }
    IN IF hits = {} THEN -1 ELSE CHOOSE i \in hits : \A j \in hits : i <= j

substring(text, a, b) == SubSeq(text, Min(a, Len(text)) + 1, Min(b, Len(text)))

\* The loop that puts the terminators back: sentences[k..] with the search
\* starting at offset currentIdx.
RECURSIVE processedSentences(_, _, _, _)
processedSentences(text, sentences, k, currentIdx) ==
    IF k > Len(sentences) THEN << >>
    ELSE LET sentence == sentences[k]
             sentenceEndIndex == indexOf(text, sentence, currentIdx) + Len(sentence)
             terminator == trim(substring(text, sentenceEndIndex, sentenceEndIndex + 2))
             fullSentence ==
                 sentence \o (IF \E i \in 1..Len(terminator) : IsTerminator(terminator[i])
                              THEN terminator ELSE << "." >>)
         IN << fullSentence >> \o processedSentences(text, sentences, k + 1, sentenceEndIndex)

\* Array.prototype.join.
RECURSIVE join(_, _)
join(ss, sep) ==
    IF Len(ss) = 0 THEN << >>
    ELSE IF Len(ss) = 1 THEN ss[1]
    ELSE ss[1] \o sep \o join(Tail(ss), sep)

\* A SubPage without alignment data: findAudioTimingForText returns null.
PagePart(t) == [text |-> t, audioStart |-> "null", audioEnd |-> "null"]

\* createPageParts with five sentences on a SubPage whatever the page size.
createPageTexts_FivePerPage(text, perPage) ==
    IF text = << >> THEN << PagePart(<< >>) >>
    ELSE LET sentences == SelectSeq(split(text, 1, 1), LAMBDA x : Len(trim(x)) > 0)
             processed == processedSentences(text, sentences, 1, 0)
             n == Len(processed)
             pageParts ==
                 [i \in 1..((n + 5 - 1) \div 5) |->
                     PagePart(join(SubSeq(processed, (i - 1) * 5 + 1,
                                          Min(i * 5, n)), << "\n", "\n" >>))]
         IN IF Len(pageParts) = 0 THEN << PagePart(text) >> ELSE pageParts

\* createPageParts(text) on the characters of the text, with perPage
\* sentences on a SubPage.
createPageTexts(text, perPage) ==
    IF text = << >> THEN << PagePart(<< >>) >>
    ELSE LET sentences == SelectSeq(split(text, 1, 1), LAMBDA x : Len(trim(x)) > 0)
             processed == processedSentences(text, sentences, 1, 0)
             n == Len(processed)
             pageParts ==
                 [i \in 1..((n + perPage - 1) \div perPage) |->
                     PagePart(join(SubSeq(processed, (i - 1) * perPage + 1,
                                          Min(i * perPage, n)), << "\n", "\n" >>))]
         IN IF Len(pageParts) = 0 THEN << PagePart(text) >> ELSE pageParts

\* The texts handed to createPageParts: the empty text, every text of at
\* most MaxChars characters, and texts of up to MaxSentences terminated
\* sentences separated by one blank.
FreeTexts == UNION { [1..n -> Alphabet] : n \in 1..MaxChars }
Terminators == { << "." >>, << "?" >>, << ".", ".", "." >> }
SentenceText(terms) ==
    join([i \in 1..Len(terms) |-> << "a" >> \o terms[i]], << " " >>)
TerminatorLists == UNION { [1..k -> Terminators] : k \in 1..MaxSentences }
SentenceTexts == { SentenceText(terms) : terms \in TerminatorLists }
Texts == { << >> } \cup FreeTexts \cup SentenceTexts
PageSizes == { SENTENCES_PER_PAGE, SENTENCES_PER_PAGE_ONE }

\* A reader that has received a text segment and not run its effects yet.
InitPages ==
    /\ InitNav /\ InitAudio
    /\ segments = Book(Kinds1) /\ userId
    /\ session = [timerCap |-> MaxTimers, lag |-> FALSE, track |-> FALSE]
    /\ answers = NoAnswers
    /\ playback = NoPlayback
    /\ alignment = NoAlignment /\ autoplay = NoAutoplay
    /\ \E t \in Texts, p \in PageSizes :
          page = [NoPage EXCEPT !.text = t, !.perPage = p]

\* The segment-init effect of a reader whose segment text is non-empty, or
\* a direct call of createPageParts: setPageParts(createPageParts(text)).
Paginate ==
    /\ page.perPage # 0
    /\ page.parts = << >>
    /\ page' = [page EXCEPT !.parts = createPageTexts(page.text, page.perPage),
                            !.partIndex = 0]
    /\ UNCHANGED <<navVars, audioVars, answers, playback, alignment, autoplay>>

\* handleNavigation(direction) of the reader on the computed SubPages.
PageNavigate(direction) ==
    /\ page.parts # << >>
    /\ page' =
         IF direction = "up" THEN
             IF page.partIndex < Len(page.parts) - 1
             THEN [page EXCEPT !.partIndex = @ + 1, !.signal = "none"]
             ELSE [page EXCEPT !.signal = "up"]
         ELSE
             IF page.partIndex > 0
             THEN [page EXCEPT !.partIndex = @ - 1, !.signal = "none"]
             ELSE [page EXCEPT !.signal = "down"]
    /\ UNCHANGED <<navVars, audioVars, answers, playback, alignment, autoplay>>

\* ------------------------------------------------------------ answer list
\* seededRandom(): the fractional part of Math.sin(id) * 10000 in millionths,
\* for the question ids 1..8.  It takes no other input, so every call made
\* for one question returns the same value.
SinFraction == << 709848, 974268, 200080, 975046, 757253, 845018, 865987, 582466 >>
seededRandom(id) == SinFraction[id]

\* [newArray[i], newArray[j]] = [newArray[j], newArray[i]] writing one cell only.
swap_Overwrites(newArray, i, j) == [newArray EXCEPT ![i] = newArray[j]]

\* [newArray[i], newArray[j]] = [newArray[j], newArray[i]], positions from 1.
swap(newArray, i, j) == [newArray EXCEPT ![i] = newArray[j], ![j] = newArray[i]]

\* The Fisher-Yates loop from position i (counted from 0) down to 1.
RECURSIVE shuffleFrom(_, _, _)
shuffleFrom(newArray, id, i) ==
    IF i > 0
    THEN LET j == (seededRandom(id) * (i + 1)) \div 1000000
         IN shuffleFrom(swap(newArray, i + 1, j + 1), id, i - 1)
    ELSE newArray

\* shuffleArray(array) for the question with identifier id.
shuffleArray(array, id) == shuffleFrom(array, id, Len(array) - 1)

\* allAnswers of a question.
allAnswers(quiz) == << quiz.correct_answer >> \o quiz.incorrect_answers

\* The questions QuizView may be given: an id, a correct answer and up to
\* MaxIncorrect incorrect answers, which may repeat.
Questions ==
    { [id |-> id, correct_answer |-> "a", incorrect_answers |-> w] :
        id \in 1..MaxQuizId,
        w \in UNION { [1..n -> {"b", "c"}] : n \in 0..MaxIncorrect } }

\* QuizView is about to render one question for the first time.
InitAnswers ==
    /\ InitNav /\ InitAudio
    /\ segments = Book(Kinds1) /\ userId
    /\ session = [timerCap |-> MaxTimers, lag |-> FALSE, track |-> FALSE]
    /\ page = NoPage
    /\ playback = NoPlayback
    /\ alignment = NoAlignment /\ autoplay = NoAutoplay
    /\ \E quiz \in Questions :
          answers = [id |-> quiz.id, list |-> allAnswers(quiz), shown |-> << >>]

\* A render of QuizView: shuffledAnswers = shuffleArray(allAnswers).
AnswersRender ==
    /\ answers' = [answers EXCEPT !.shown = shuffleArray(answers.list, answers.id)]
    /\ answers' # answers
    /\ UNCHANGED <<navVars, audioVars, page, playback, alignment, autoplay>>

\* QuizView is unmounted and mounted again with the same question: nothing
\* of the previous instance is kept.
AnswersRemount ==
    /\ answers.shown # << >>
    /\ answers' = [answers EXCEPT !.shown = << >>]
    /\ UNCHANGED <<navVars, audioVars, page, playback, alignment, autoplay>>

\* The question changes (currentQuizIndex moves): another id and answer list.
AnswersChange ==
    /\ answers.shown # << >>
    /\ \E quiz \in Questions :
          /\ quiz.id # answers.id
          /\ answers' = [id |-> quiz.id, list |-> allAnswers(quiz),
                         shown |-> shuffleArray(allAnswers(quiz), quiz.id)]
    /\ UNCHANGED <<navVars, audioVars, page, playback, alignment, autoplay>>

\* ------------------------------------------------------- play and seeking
\* Positions of the native player in milliseconds (two of them 100 ms and
\* 101 ms away from each start) and values of the startPosition prop in
\* seconds; NoPosition stands for null.
Positions == {0, 100, 101, 900, 1000, 1100, 1101}
StartPositions == {NoPosition, 0, 1}

Abs(x) == IF x < 0 THEN -x ELSE x

\* The seek test without the 100 ms tolerance.
needsSeek_NoTolerance(positionMillis, startPosition) ==
    Abs(positionMillis - startPosition * 1000) > 0

\* Math.abs(positionMillis - startPosition * 1000) > 100.
needsSeek(positionMillis, startPosition) ==
    Abs(positionMillis - startPosition * 1000) > 100

\* status.isLoaded of the attached sound.
StatusIsLoaded == sound # 0 /\ sound \in loaded

\* An AudioPlayer with or without an attached sound, loaded or not, loading
\* or not, playing or paused at some position, with some startPosition.
InitSeek ==
    /\ InitNav
    /\ segments = Book(Kinds1) /\ userId
    /\ session = [timerCap |-> MaxTimers, lag |-> FALSE, track |-> FALSE]
    /\ page = NoPage /\ answers = NoAnswers /\ alignment = NoAlignment /\ autoplay = NoAutoplay
    /\ mounted = TRUE /\ audioUrl = 1 /\ enabled = TRUE
    /\ loads = << >> /\ released = {}
    /\ transport = [snd |-> 0, past |-> FALSE, finishes |-> 0]
    /\ sound \in {0, 1}
    /\ loaded \in SUBSET {1}
    /\ sound = 0 => loaded = {}
    /\ isLoading \in BOOLEAN
    /\ isPlaying \in BOOLEAN
    /\ \E p \in Positions, sp \in StartPositions, np \in BOOLEAN :
          /\ ~StatusIsLoaded => (~np /\ p = 0 /\ ~isPlaying)
          /\ playback = [NoPlayback EXCEPT !.status = [isPlaying |-> np, positionMillis |-> p],
                                           !.startPosition = sp]

\* The imperative play() of the player's ref.
play ==
    LET st == playback.status
        sp == playback.startPosition
        seeks == sp # NoPosition /\ needsSeek(st.positionMillis, sp)
    IN /\ IF sound # 0 /\ ~isLoading THEN
             IF StatusIsLoaded /\ ~st.isPlaying THEN
                /\ playback' =
                     [playback EXCEPT
                        !.status = [isPlaying |-> TRUE,
                                    positionMillis |-> IF seeks THEN sp * 1000
                                                       ELSE st.positionMillis],
                        !.act = "play",
                        !.ops = IF seeks
                                THEN << "getStatusAsync", "setPositionAsync", "playAsync" >>
                                ELSE << "getStatusAsync", "playAsync" >>]
                /\ isPlaying' = TRUE
             ELSE
                /\ playback' = [playback EXCEPT !.act = "play", !.ops = << "getStatusAsync" >>]
                /\ UNCHANGED isPlaying
          ELSE
             /\ playback' = [playback EXCEPT !.act = "play", !.ops = << >>]
             /\ UNCHANGED isPlaying
       /\ UNCHANGED <<navVars, page, answers, alignment, autoplay, mounted, audioUrl, enabled, sound,
                      isLoading, loads, loaded, released, transport>>

\* The imperative pause() of the player's ref.
pause ==
    LET st == playback.status
    IN /\ IF sound # 0 THEN
             IF StatusIsLoaded /\ st.isPlaying THEN
                /\ playback' = [playback EXCEPT !.status.isPlaying = FALSE,
                                                !.act = "pause",
                                                !.ops = << "getStatusAsync", "pauseAsync" >>]
                /\ isPlaying' = FALSE
             ELSE
                /\ playback' = [playback EXCEPT !.act = "pause", !.ops = << "getStatusAsync" >>]
                /\ UNCHANGED isPlaying
          ELSE
             /\ playback' = [playback EXCEPT !.act = "pause", !.ops = << >>]
             /\ UNCHANGED isPlaying
       /\ UNCHANGED <<navVars, page, answers, alignment, autoplay, mounted, audioUrl, enabled, sound,
                      isLoading, loads, loaded, released, transport>>

\* The seek effect run for startPosition sp that also starts playback.
seek_StartsPlayback(sp) ==
    IF sound # 0 /\ sp # NoPosition THEN
        IF StatusIsLoaded /\ needsSeek(playback.status.positionMillis, sp)
        THEN [playback EXCEPT !.status = [isPlaying |-> TRUE, positionMillis |-> sp * 1000],
                              !.startPosition = sp,
                              !.act = "seek",
                              !.ops = << "getStatusAsync", "setPositionAsync" >>]
        ELSE [playback EXCEPT !.startPosition = sp, !.act = "seek",
                              !.ops = << "getStatusAsync" >>]
    ELSE [playback EXCEPT !.startPosition = sp, !.act = "seek", !.ops = << >>]

\* The seek effect run for startPosition sp.
seek(sp) ==
    IF sound # 0 /\ sp # NoPosition THEN
        IF StatusIsLoaded /\ needsSeek(playback.status.positionMillis, sp)
        THEN [playback EXCEPT !.status.positionMillis = sp * 1000,
                              !.startPosition = sp,
                              !.act = "seek",
                              !.ops = << "getStatusAsync", "setPositionAsync" >>]
        ELSE [playback EXCEPT !.startPosition = sp, !.act = "seek",
                              !.ops = << "getStatusAsync" >>]
    ELSE [playback EXCEPT !.startPosition = sp, !.act = "seek", !.ops = << >>]

\* The owner passes another startPosition; the effect on [sound,
\* startPosition] runs with it.
StartPositionChange ==
    /\ \E sp \in StartPositions :
          /\ sp # playback.startPosition
          /\ playback' = seek(sp)
    /\ UNCHANGED <<navVars, page, answers, audioVars, alignment, autoplay>>

\* The native player plays on to the next position.
PositionAdvance ==
    /\ StatusIsLoaded
    /\ playback.status.isPlaying
    /\ \E p \in Positions :
          /\ p > playback.status.positionMillis
          /\ \A q \in Positions : q > playback.status.positionMillis => p <= q
          /\ playback' = [playback EXCEPT !.status.positionMillis = p,
                                          !.act = "advance", !.ops = << >>]
    /\ UNCHANGED <<navVars, page, answers, audioVars, alignment, autoplay>>

\* ------------------------------------------------ boundary signals in a row
\* The updater handleNavigation passes to setCurrentIndex.
setCurrentIndexUpdater(prev, direction) ==
    LET newIndex == IF direction = "up" THEN prev + 1 ELSE prev - 1
    IN IF newIndex >= 1 /\ newIndex <= Len(segments) THEN newIndex ELSE prev

\* k updaters queued by k calls of handleNavigation('up'), applied in turn.
RECURSIVE queuedUpdaters(_, _)
queuedUpdaters(k, prev) ==
    IF k = 0 THEN prev ELSE queuedUpdaters(k - 1, setCurrentIndexUpdater(prev, "up"))

\* k boundary-reached signals are delivered before React re-renders: each one
\* runs handleAudioFinish -> handleNavigation('up', {keepAudioPlaying: true})
\* of the same render, so each call sees the same partIndex, subPageIndex
\* and quizzes; setPartIndex / setSubPageIndex(totalSubPages) set the same
\* value again, the functional updaters queue up.
AudioFinishBurst ==
    \E k \in 2..MaxSignals :
        LET n == Len(rv.pageParts)
            ev == [Event("AudioFinishBurst", "up", "none") EXCEPT
                      !.pause = shouldPauseAudio(TRUE), !.q = k]
        IN /\ view = "reading"
           /\ pendingEffects = {}
           /\ IF rv.partIndex < n - 1 THEN
                 /\ Commit(currentIndex, rv.partIndex + 1, n, quizzes,
                           [rv EXCEPT !.partIndex = rv.partIndex + 1,
                                      !.playTimer = @ \/ enableAudio], qv, timers)
                 /\ last' = ev
              ELSE
                 LET r == handleInternalNavigate("up", TRUE)
                     idx == IF r.req = "none" THEN currentIndex
                            ELSE queuedUpdaters(k, currentIndex)
                     sub == IF r.req = "none" /\ subPageIndex < totalSubPages - 1
                            THEN subPageIndex + k ELSE r.sub
                 IN /\ Commit(idx, sub, totalSubPages, quizzes, rv, qv, timers)
                    /\ last' = [ev EXCEPT !.req = r.req, !.auto = r.auto,
                                          !.calls = [i \in 1..k |-> "onNavigate"],
                                          !.autoPlayNextSegment = TRUE]
           /\ Track
           /\ UNCHANGED <<unitVars, session, segments, userId, fetches, audioVars>>

\* ------------------------------------------------- autoplay after advance
\* BookPage and a ReadingView that stays mounted, on a book of text segments
\* with audio, no quizzes and LastPart + 1 SubPages each, every SubPage
\* with an audio window.  idx is currentIndex, seg the currentSegment handed
\* to ReadingView, trigger is triggerAutoplayForCurrentSegment, parts the
\* segment whose pageParts ReadingView holds, ref its previousSegmentIdRef.
\* playTimer is the pending 200 ms timeout of the autoPlay effect with the
\* segment, pageParts and partIndex of its closure; resetTimer the pending
\* 0 ms timeout of the reset effect.  deps / resetDeps are the dependencies
\* of the last run of the two effects; dirty: the effects of the last commit
\* have not run yet.  hint is the segment the session last advanced to with
\* the trigger set (0 once the reader has left it), played the number of
\* play() calls made since while that segment is displayed.
\* ------------------------------------------------- autoplay after advance
\* BookPage and a ReadingView that stays mounted, on a book of text segments
\* with audio, no quizzes and LastPart + 1 SubPages each, every SubPage
\* with an audio window.  idx is currentIndex, seg the currentSegment handed
\* to ReadingView, trigger is triggerAutoplayForCurrentSegment, parts the
\* segment whose pageParts ReadingView holds, ref its previousSegmentIdRef.
\* playTimer is the pending 200 ms timeout of the autoPlay effect with the
\* segment, pageParts and partIndex of its closure; resetTimer the pending
\* 0 ms timeout of the reset effect.  deps / resetDeps are the dependencies
\* of the last run of the two effects; dirty: the effects of the last commit
\* have not run yet.  hint is the segment the session last advanced to with
\* the trigger set (0 once the reader has left it), played the number of
\* play() calls made since while that segment is displayed.
LastPart == Len(createPageParts(MaxSentences)) - 1

autoPlayDeps(a) == << a.trigger, a.seg, a.partIndex, a.parts, a.enableAudio >>

\* The reader is on a SubPage of the first segment.
InitAutoplay ==
    /\ InitNav /\ InitAudio
    /\ segments = Book(Kinds1) /\ userId
    /\ session = [timerCap |-> MaxTimers, lag |-> FALSE, track |-> FALSE]
    /\ page = NoPage /\ answers = NoAnswers /\ playback = NoPlayback
    /\ alignment = NoAlignment
    /\ \E i \in 0..LastPart :
          LET a == [NoAutoplay EXCEPT !.idx = 1, !.seg = 1, !.parts = 1, !.ref = 1,
                                      !.partIndex = i]
          IN autoplay = [a EXCEPT !.deps = autoPlayDeps(a)]

\* The commit of new BookPage / ReadingView state b after the step act.
AutoplayCommit(b, act) ==
    /\ autoplay' = [b EXCEPT !.act = act]
    /\ UNCHANGED <<navVars, audioVars, page, answers, playback, alignment>>

\* The boundary signal on the last SubPage: handleNavigation('up', true)
\* moves currentIndex and sets the trigger.  Narration is playing, so no
\* timeout of an earlier advance is still pending.
BoundaryAdvance ==
    /\ ~autoplay.dirty
    /\ autoplay.enableAudio
    /\ ~autoplay.resetTimer /\ autoplay.playTimer = NoAutoplayTimer
    /\ autoplay.partIndex = LastPart
    /\ autoplay.idx < NumSegments
    /\ AutoplayCommit([autoplay EXCEPT !.idx = setCurrentIndexUpdater(@, "up"),
                                       !.trigger = TRUE,
                                       !.hint = autoplay.idx + 1,
                                       !.played = 0,
                                       !.dirty = TRUE], "BoundaryAdvance")

\* A tap on next on the last SubPage or on previous on the first one, once
\* the timeouts of an advance have run: handleNavigation(direction, false).
SegmentTap ==
    \E direction \in {"up", "down"} :
        /\ ~autoplay.dirty
        /\ ~autoplay.resetTimer /\ autoplay.playTimer = NoAutoplayTimer
        /\ autoplay.partIndex = (IF direction = "up" THEN LastPart ELSE 0)
        /\ setCurrentIndexUpdater(autoplay.idx, direction) # autoplay.idx
        /\ AutoplayCommit([autoplay EXCEPT
                             !.idx = setCurrentIndexUpdater(@, direction),
                             !.hint = 0,
                             !.played = 0,
                             !.dirty = TRUE], "SegmentTap")

\* A tap that moves to another SubPage of the segment; a 0 ms timeout that
\* is pending fires before the tap is handled.
PartTap ==
    \E direction \in {"up", "down"} :
        /\ ~autoplay.dirty
        /\ ~autoplay.resetTimer
        /\ IF direction = "up" THEN autoplay.partIndex < LastPart
           ELSE autoplay.partIndex > 0
        /\ AutoplayCommit([autoplay EXCEPT
                             !.partIndex = IF direction = "up" THEN @ + 1 ELSE @ - 1,
                             !.dirty = TRUE],
                          "PartTap")

\* The reader switches the enable_audio setting, once the timeouts of an
\* advance have run.
SettingToggle ==
    /\ ~autoplay.dirty
    /\ ~autoplay.resetTimer /\ autoplay.playTimer = NoAutoplayTimer
    /\ AutoplayCommit([autoplay EXCEPT !.enableAudio = ~@, !.dirty = TRUE],
                      "SettingToggle")

\* ReadingView's autoPlay effect on the committed values a: when a dependency
\* changed, the cleanup of the last run clears its timeout and the body sets
\* a new one if autoPlay is on and there are pageParts.
autoPlayEffect(a) ==
    IF autoPlayDeps(a) = a.deps THEN a
    ELSE [a EXCEPT !.deps = autoPlayDeps(a),
                   !.playTimer = IF a.trigger /\ a.enableAudio /\ a.parts # 0
                                 THEN [seg |-> a.seg, parts |-> a.parts,
                                       part |-> a.partIndex]
                                 ELSE NoAutoplayTimer]

\* The passive effects of the last commit, children first: ReadingView's
\* segment-init effect and autoPlay effect, then BookPage's effect on
\* [currentIndex, segments] (setCurrentSegment) and its reset effect.  The
\* effects see the committed values; what they set is committed next.
AutoplayEffects ==
    /\ autoplay.dirty
    /\ LET a == autoplay
           segmentChanged == a.ref # a.seg
           ap == autoPlayEffect(a)
           \* BookPage's reset effect on [triggerAutoplayForCurrentSegment]
           e == IF ap.trigger = ap.resetDeps THEN ap
                ELSE [ap EXCEPT !.resetDeps = ap.trigger, !.resetTimer = ap.trigger]
           b == [e EXCEPT !.ref = a.seg,
                          !.parts = IF segmentChanged THEN a.seg ELSE @,
                          !.partIndex = IF segmentChanged THEN 0 ELSE @,
                          !.seg = a.idx]
       IN AutoplayCommit([b EXCEPT !.dirty = b.seg # a.seg \/ b.parts # a.parts
                                             \/ b.partIndex # a.partIndex],
                         "Effects")

\* The 0 ms timeout of the reset effect: setTriggerAutoplayForCurrentSegment(false).
ResetFire ==
    /\ ~autoplay.dirty
    /\ autoplay.resetTimer
    /\ AutoplayCommit([autoplay EXCEPT !.resetTimer = FALSE, !.trigger = FALSE,
                                       !.dirty = TRUE],
                      "ResetFire")

\* The 200 ms timeout of the autoPlay effect: the part of its closure has an
\* audio window, so it calls audioPlayerRef.current?.play().
AutoPlayFire ==
    /\ ~autoplay.dirty
    /\ autoplay.playTimer # NoAutoplayTimer
    /\ AutoplayCommit([autoplay EXCEPT
                          !.playTimer = NoAutoplayTimer,
                          !.played = IF autoplay.seg = autoplay.hint THEN @ + 1 ELSE @],
                      "AutoPlayFire")

\* ---------------------------------------------------------- repeated taps
\* A reader who answers no question: they move through the book freely, then
\* keep tapping one navigation button (session.tapping = "down" or "up").
InitTaps ==
    /\ InitNav /\ InitAudio /\ InitUnits
    /\ session = [timerCap |-> MaxTimers, lag |-> FALSE, track |-> FALSE,
                  tapping |-> "free"]

Browse ==
    /\ session.tapping = "free"
    /\ \/ FlushEffects
       \/ ReadingTap
       \/ LoadQuizzesDone
       \/ QuizNav

\* The reader starts tapping one button only.
StartTapping ==
    \E direction \in {"up", "down"} :
        /\ session.tapping = "free"
        /\ pendingEffects = {}
        /\ session' = [session EXCEPT !.tapping = direction]
        /\ last' = Event("StartTapping", direction, "none")
        /\ UNCHANGED <<unitVars, audioVars, segments, userId, currentIndex,
                       subPageIndex, totalSubPages, quizzes, fetches, view, rv, qv,
                       timers, pendingEffects, history>>

\* A tap on the button the reader keeps tapping, in the view on screen.
Tap ==
    /\ session.tapping # "free"
    /\ \/ ReadingTap
       \/ QuizNav
    /\ last'.dir = session.tapping

\* Effects and fetches complete while the reader keeps tapping.
Settle ==
    /\ session.tapping # "free"
    /\ \/ FlushEffects
       \/ LoadQuizzesDone

\* ------------------------------------------------- rejected native calls
\* A rejected native call has no effect on the native player; the catch
\* block of the caller runs.

\* An AudioPlayer whose isPlaying flag is set only while the transport plays.
InitFaults ==
    /\ InitSeek
    /\ isPlaying => playback.status.isPlaying

\* play() with the call named failing rejected: catch { setIsPlaying(false) }.
playFault(failing) ==
    LET st == playback.status
        sp == playback.startPosition
        seeks == sp # NoPosition /\ needsSeek(st.positionMillis, sp)
        proceeds == StatusIsLoaded /\ ~st.isPlaying
    IN /\ sound # 0 /\ ~isLoading
       /\ \/ /\ failing = "getStatusAsync"
             /\ playback' = [playback EXCEPT !.act = "playFault", !.ops = << >>]
          \/ /\ failing = "setPositionAsync"
             /\ proceeds /\ seeks
             /\ playback' = [playback EXCEPT !.act = "playFault",
                                             !.ops = << "getStatusAsync" >>]
          \/ /\ failing = "playAsync"
             /\ proceeds
             /\ playback' =
                  [playback EXCEPT
                     !.status.positionMillis = IF seeks THEN sp * 1000 ELSE @,
                     !.act = "playFault",
                     !.ops = IF seeks THEN << "getStatusAsync", "setPositionAsync" >>
                             ELSE << "getStatusAsync" >>]
       /\ isPlaying' = FALSE
       /\ UNCHANGED <<navVars, page, answers, alignment, autoplay, mounted, audioUrl, enabled, sound,
                      isLoading, loads, loaded, released, transport>>

\* pause() with the call named failing rejected: catch { setIsPlaying(false) }.
pauseFault(failing) ==
    /\ sound # 0
    /\ \/ /\ failing = "getStatusAsync"
          /\ playback' = [playback EXCEPT !.act = "pauseFault", !.ops = << >>]
       \/ /\ failing = "pauseAsync"
          /\ StatusIsLoaded /\ playback.status.isPlaying
          /\ playback' = [playback EXCEPT !.act = "pauseFault",
                                          !.ops = << "getStatusAsync" >>]
    /\ isPlaying' = FALSE
    /\ UNCHANGED <<navVars, page, answers, alignment, autoplay, mounted, audioUrl, enabled, sound,
                   isLoading, loads, loaded, released, transport>>

\* togglePlayback setting the flag before the native call settles.
toggle_FlagFirst(failing) ==
    LET sp == playback.startPosition
    IN /\ sound # 0 /\ ~isLoading /\ StatusIsLoaded
       /\ IF isPlaying THEN
             /\ failing \in {"none", "pauseAsync"}
             /\ playback' = [playback EXCEPT
                                !.status.isPlaying = IF failing = "none" THEN FALSE ELSE @,
                                !.act = IF failing = "none" THEN "toggle" ELSE "toggleFault",
                                !.ops = IF failing = "none" THEN << "pauseAsync" >> ELSE << >>]
             /\ isPlaying' = FALSE
          ELSE
             /\ failing \in {"none", "playAsync"} \cup
                            (IF sp # NoPosition THEN {"setPositionAsync"} ELSE {})
             /\ playback' =
                  [playback EXCEPT
                     !.status = [isPlaying |-> IF failing = "none" THEN TRUE ELSE @.isPlaying,
                                 positionMillis |->
                                     IF sp # NoPosition /\ failing # "setPositionAsync"
                                     THEN sp * 1000 ELSE @.positionMillis],
                     !.act = IF failing = "none" THEN "toggle" ELSE "toggleFault",
                     !.ops = IF failing = "setPositionAsync" THEN << >>
                             ELSE IF failing = "playAsync"
                             THEN (IF sp # NoPosition THEN << "setPositionAsync" >> ELSE << >>)
                             ELSE (IF sp # NoPosition
                                   THEN << "setPositionAsync", "playAsync" >>
                                   ELSE << "playAsync" >>)]
             /\ isPlaying' = TRUE
       /\ UNCHANGED <<navVars, page, answers, alignment, autoplay, mounted, audioUrl, enabled, sound,
                      isLoading, loads, loaded, released, transport>>

\* togglePlayback on a loaded sound, with the call named failing rejected
\* ("none": every call resolves): catch { console.log }.
toggle(failing) ==
    LET sp == playback.startPosition
    IN /\ sound # 0 /\ ~isLoading /\ StatusIsLoaded
       /\ IF isPlaying THEN
             /\ failing \in {"none", "pauseAsync"}
             /\ playback' = [playback EXCEPT
                                !.status.isPlaying = IF failing = "none" THEN FALSE ELSE @,
                                !.act = IF failing = "none" THEN "toggle" ELSE "toggleFault",
                                !.ops = IF failing = "none" THEN << "pauseAsync" >> ELSE << >>]
             /\ isPlaying' = IF failing = "none" THEN FALSE ELSE isPlaying
          ELSE
             /\ failing \in {"none", "playAsync"} \cup
                            (IF sp # NoPosition THEN {"setPositionAsync"} ELSE {})
             /\ playback' =
                  [playback EXCEPT
                     !.status = [isPlaying |-> IF failing = "none" THEN TRUE ELSE @.isPlaying,
                                 positionMillis |->
                                     IF sp # NoPosition /\ failing # "setPositionAsync"
                                     THEN sp * 1000 ELSE @.positionMillis],
                     !.act = IF failing = "none" THEN "toggle" ELSE "toggleFault",
                     !.ops = IF failing = "setPositionAsync" THEN << >>
                             ELSE IF failing = "playAsync"
                             THEN (IF sp # NoPosition THEN << "setPositionAsync" >> ELSE << >>)
                             ELSE (IF sp # NoPosition
                                   THEN << "setPositionAsync", "playAsync" >>
                                   ELSE << "playAsync" >>)]
             /\ isPlaying' = IF failing = "none" THEN TRUE ELSE isPlaying
       /\ UNCHANGED <<navVars, page, answers, alignment, autoplay, mounted, audioUrl, enabled, sound,
                      isLoading, loads, loaded, released, transport>>

\* The owner passes another startPosition and a call of the seek effect is
\* rejected: catch { console.log }.
seekFault(failing) ==
    /\ sound # 0
    /\ \E sp \in StartPositions \ {NoPosition} :
          /\ sp # playback.startPosition
          /\ \/ failing = "getStatusAsync"
             \/ /\ failing = "setPositionAsync"
                /\ StatusIsLoaded /\ needsSeek(playback.status.positionMillis, sp)
          /\ playback' = [playback EXCEPT
                             !.startPosition = sp,
                             !.act = "seekFault",
                             !.ops = IF failing = "getStatusAsync" THEN << >>
                                     ELSE << "getStatusAsync" >>]
    /\ UNCHANGED <<navVars, page, answers, alignment, autoplay, audioVars>>

\* ------------------------------------------------------ alignment matcher
\* Texts are sequences of words (what split(' ') gives after the whitespace
\* has been normalised); "A" is the one word with an upper-case letter.
toLowerCase(words) == [i \in DOMAIN words |-> IF words[i] = "A" THEN "a" ELSE words[i]]

\* String.prototype.includes on texts of whole words.
includes(hay, needle) ==
    \E i \in 0..(Len(hay) - Len(needle)) : SubSeq(hay, i + 1, i + Len(needle)) = needle

\* split(' ').slice(0, 5) and split(' ').slice(-5).
firstWords(words) == SubSeq(words, 1, Min(BOUNDARY_WORDS, Len(words)))
lastWords(words) ==
    SubSeq(words, IF Len(words) > BOUNDARY_WORDS THEN Len(words) - BOUNDARY_WORDS + 1 ELSE 1,
           Len(words))

\* The loop over alignmentData.segments from span i on, with start and end
\* as found so far (NoPosition for null).
RECURSIVE scanSegments(_, _, _, _, _, _)
scanSegments(segs, i, start, end, firstW, lastW) ==
    IF i > Len(segs) THEN [start |-> start, end |-> end]
    ELSE LET segmentText == toLowerCase(segs[i].text)
             start1 == IF includes(segmentText, firstW) /\ start = NoPosition
                       THEN segs[i].start ELSE start
         IN IF includes(segmentText, lastW)
            THEN IF start1 # NoPosition
                 THEN [start |-> start1, end |-> segs[i].end]
                 ELSE scanSegments(segs, i + 1, start1, segs[i].end, firstW, lastW)
            ELSE scanSegments(segs, i + 1, start1, end, firstW, lastW)

\* findAudioTimingForText returning null whenever the scan found no window.
findAudioTimingForText_NoFallback(text, alignmentData) ==
    IF ~alignmentData.present \/ Len(alignmentData.segments) = 0 THEN NoTiming
    ELSE LET normalizedText == toLowerCase(text)
             found == scanSegments(alignmentData.segments, 1, NoPosition, NoPosition,
                                   firstWords(normalizedText), lastWords(normalizedText))
         IN IF found.start # NoPosition /\ found.end # NoPosition THEN found
            ELSE NoTiming

\* findAudioTimingForText(text, alignmentData); NoTiming for null.
findAudioTimingForText(text, alignmentData) ==
    IF ~alignmentData.present \/ Len(alignmentData.segments) = 0 THEN NoTiming
    ELSE LET normalizedText == toLowerCase(text)
             found == scanSegments(alignmentData.segments, 1, NoPosition, NoPosition,
                                   firstWords(normalizedText), lastWords(normalizedText))
         IN IF found.start # NoPosition /\ found.end # NoPosition THEN found
            ELSE [start |-> alignmentData.segments[1].start,
                  end |-> alignmentData.segments[Len(alignmentData.segments)].end]

\* Page texts: one longer than the boundary window, one of equal words, one
\* shorter than the window.
PageTexts ==
    { << "A", "b", "c", "d", "e", "f" >>, << "a", "a", "a", "a", "a", "a" >>, << "a", "b" >> }

\* Span texts for a page: with its first words, its last words, both,
\* neither.
SpanTexts(text) == { firstWords(text), lastWords(text), text, Tail(text), << "z" >> }

\* Spans one after the other from time 0, span i lasting durations[i].
RECURSIVE SpanStart(_, _)
SpanStart(durations, i) ==
    IF i = 1 THEN 0 ELSE SpanStart(durations, i - 1) + durations[i - 1]
Spans(texts, durations) ==
    [i \in 1..Len(texts) |-> [text |-> texts[i],
                              start |-> SpanStart(durations, i),
                              end |-> SpanStart(durations, i) + durations[i]]]

\* A page text with alignment data: absent, or up to MaxSpans spans ordered
\* by time, each with start <= end.
InitAlignment ==
    /\ InitNav /\ InitAudio
    /\ segments = Book(Kinds1) /\ userId
    /\ session = [timerCap |-> MaxTimers, lag |-> FALSE, track |-> FALSE]
    /\ page = NoPage /\ answers = NoAnswers /\ playback = NoPlayback
    /\ autoplay = NoAutoplay
    /\ \E text \in PageTexts, present \in BOOLEAN, n \in 0..MaxSpans :
          \E texts \in [1..n -> SpanTexts(text)], durations \in [1..n -> {0, 1}] :
             /\ ~present => n = 0
             /\ alignment = [NoAlignment EXCEPT !.text = text,
                                                !.present = present,
                                                !.segments = Spans(texts, durations)]

\* createPageParts asks for the timing of a page.
FindTiming ==
    /\ alignment.text # << >>
    /\ ~alignment.done
    /\ alignment' = [alignment EXCEPT
                        !.timing = findAudioTimingForText(alignment.text, alignment),
                        !.done = TRUE]
    /\ UNCHANGED <<navVars, audioVars, page, answers, playback, autoplay>>

\* ------------------------------------------------------------------ claims
Quiescent == pendingEffects = {}

\* The ReadingView shows the last SubPage of a non-empty SubPage sequence.
AtLastSubPage ==
    /\ view = "reading"
    /\ Quiescent
    /\ Len(rv.pageParts) >= 1
    /\ rv.partIndex = Len(rv.pageParts) - 1

\* The step is a forward navigation of the ReadingView (tap or audio boundary).
ForwardStep == last'.act \in {"ReadingTap", "AudioFinish"} /\ last'.dir = "up"

\* C1: from the last SubPage of a text segment with an empty quiz set, a
\* forward navigation requests the next segment from the Book Session and
\* does not switch to quiz mode (subPageIndex is not set to totalSubPages).
C1_ForwardNoQuizRequestsNextSegment ==
    [][ (AtLastSubPage /\ segments[currentIndex].slide_type = "text"
         /\ Len(quizzes) = 0 /\ ForwardStep)
        => /\ last'.req = "up"
           /\ currentIndex' = handleNavigation("up")
           /\ view' = "reading"
           /\ subPageIndex' # totalSubPages
           /\ subPageIndex' = subPageIndex ]_vars

\* C1 witness: a tap on the last SubPage of a text segment without quizzes
\* has requested the next segment and the session has advanced.
C1_Witness ==
    /\ last.act = "ReadingTap" /\ last.dir = "up" /\ last.req = "up"
    /\ Len(quizzes) = 0
    /\ currentIndex > 1
    /\ segments[currentIndex - 1].slide_type = "text"
    /\ "loadQuizzes" \in pendingEffects

\* C2 (as claimed): backward from the first quiz question switches to content
\* mode on the last SubPage (index totalSubPages - 1), and the re-mounted
\* ReadingView keeps displaying that SubPage.
C2_BackFromQuizShowsLastSubPage ==
    [][ /\ (last'.act = "QuizNav" /\ last'.dir = "down" /\ last'.q = 0)
            => (view' = "reading" /\ subPageIndex' = totalSubPages - 1)
        /\ (last.act = "QuizNav" /\ last.dir = "down" /\ last.q = 0
            /\ last'.act = "FlushEffects")
            => (/\ view' = "reading"
                /\ subPageIndex' = totalSubPages' - 1
                /\ rv'.partIndex = Len(rv'.pageParts) - 1) ]_vars

\* C3 (as claimed): a timer scheduled on question q that fires while the same
\* QuizView shows another question neither moves the question index nor
\* signals upward.
C3_StaleTimerDoesNothing ==
    [][ (last'.act = "TimerFire" /\ last'.live /\ view = "quiz"
         /\ last'.q # qv.currentQuizIndex)
        => (qv'.currentQuizIndex = qv.currentQuizIndex /\ last'.req = "none")
      ]_vars

\* C4 (as claimed): a timer whose QuizView is unmounted, or whose segment is
\* no longer current, requests nothing and changes no state when it fires.
C4_TimerAfterUnmountDoesNothing ==
    [][ (last'.act = "TimerFire" /\ (~last'.live \/ last'.seg # currentIndex))
        => (/\ last'.req = "none"
            /\ UNCHANGED <<currentIndex, subPageIndex, totalSubPages, quizzes,
                           view, rv, qv>>) ]_vars

\* A run of the load effect whose cleanup ran while its load was in flight
\* (getSignedUrl or loadAsync had not settled yet).
CancelledInFlight(l) == l.hasSound /\ l.cancelledAt \in {"resolve", "load"}

\* C5: a load whose effect was cleaned up (URL change or unmount) while it
\* was in flight never attaches its sound, writes no sound / isLoading /
\* isPlaying state afterwards, and once it has settled its sound is not left
\* loaded.
C5_CancelledLoadNeverAttached ==
    \A i \in DOMAIN loads :
        CancelledInFlight(loads[i])
        => /\ sound # i
           /\ ~loads[i].setAfterCancel
           /\ loads[i].pc = "done" => i \notin loaded

\* C5 witness: the URL changed while run i was loading; run i has since
\* loaded and released its sound while the next run is still loading.
C5_Witness ==
    \E i \in DOMAIN loads :
        /\ CancelledInFlight(loads[i])
        /\ loads[i].alive
        /\ loads[i].pc = "done"
        /\ i \in released
        /\ mounted /\ isLoading /\ sound = 0
        /\ i + 1 \in DOMAIN loads
        /\ loads[i + 1].isMounted
        /\ loads[i + 1].pc = "load"

\* C6 (as claimed): the result of a quiz fetch that completes for a segment
\* that is no longer current is discarded.
C6_StaleFetchDiscarded ==
    [][ (last'.act = "LoadQuizzesDone" /\ last'.seg # currentIndex)
        => quizzes' = quizzes ]_vars

\* C7 (as claimed): once the load for the current segment has settled, the
\* quiz set is empty if the segment is not text, no user is present, the bank
\* returned nothing or the fetch failed.
C7_SettledLoadLeavesNoOldQuestions ==
    /\ (Quiescent /\ fetches = {}
        /\ (segments[currentIndex].slide_type # "text" \/ ~userId))
        => quizzes = << >>
    /\ (last.act = "LoadQuizzesDone" /\ last.seg = currentIndex
        /\ last.outcome \in {"empty", "error"})
        => quizzes = << >>

\* C8: exactly one view is mounted, the QuizView iff
\* subPageIndex >= totalSubPages and the quiz set is non-empty.
C8_ExactlyOneView ==
    /\ view \in {"reading", "quiz"}
    /\ view = "quiz" <=> (subPageIndex >= totalSubPages /\ Len(quizzes) > 0)
    /\ view = "reading" => qv = FreshQV
    /\ view = "quiz" => rv = FreshRV

\* C8 witness: the QuizView is shown after the content of a paginated segment.
C8_Witness ==
    /\ view = "quiz" /\ Quiescent
    /\ totalSubPages > 1 /\ subPageIndex = totalSubPages

\* C9 (as claimed): in quiescent states the child shows the item the linear
\* index names.
C9_LinearIndexNamesDisplayedItem ==
    Quiescent =>
        /\ view = "reading" => rv.partIndex = subPageIndex
        /\ view = "quiz" => qv.currentQuizIndex = subPageIndex - totalSubPages

\* C10: from the last SubPage with a non-empty quiz set, a forward navigation
\* switches to quiz mode on question 0 and requests no segment navigation.
C10_ForwardWithQuizEntersQuiz ==
    [][ (AtLastSubPage /\ Len(quizzes) > 0 /\ ForwardStep)
        => /\ last'.req = "none"
           /\ currentIndex' = currentIndex
           /\ view' = "quiz"
           /\ subPageIndex' = totalSubPages'
           /\ totalSubPages' = totalSubPages
           /\ qv'.currentQuizIndex = 0
           /\ ~qv'.hasSubmitted ]_vars

\* C10 witness: a forward tap has just opened the quiz on question 0.
C10_Witness ==
    /\ last.act = "ReadingTap" /\ last.dir = "up" /\ last.req = "none"
    /\ view = "quiz"
    /\ subPageIndex = totalSubPages
    /\ qv.currentQuizIndex = 0


\* C11: the navigation buttons of the QuizView.  Next on question j < m-1
\* shows j+1 and calls nothing; next on the last question calls onComplete
\* once, which requests the next segment, and keeps the index; previous on
\* j > 0 shows j-1 and calls nothing; previous on question 0 calls
\* onNavigate('down') once and keeps the index.
C11_QuizButtons ==
    [][ last'.act = "QuizNav" =>
        LET j == qv.currentQuizIndex
            m == Len(quizzes)
            quiet == /\ last'.calls = << >> /\ last'.req = "none"
                     /\ UNCHANGED <<currentIndex, subPageIndex, totalSubPages>>
        IN /\ (last'.dir = "up" /\ j < m - 1)
                => (qv'.currentQuizIndex = j + 1 /\ quiet)
           /\ (last'.dir = "up" /\ j = m - 1)
                => /\ last'.calls = << "onComplete" >>
                   /\ last'.req = "up"
                   /\ currentIndex' = handleNavigation("up")
                   /\ qv'.currentQuizIndex = j
           /\ (last'.dir = "down" /\ j > 0)
                => (qv'.currentQuizIndex = j - 1 /\ quiet)
           /\ (last'.dir = "down" /\ j = 0)
                => /\ last'.calls = << "onNavigate" >>
                   /\ qv'.currentQuizIndex = 0
                   /\ currentIndex' = currentIndex ]_vars

\* C11 witness: next was tapped on the last of several questions and the
\* session has moved to the next segment.
C11_Witness ==
    /\ last.act = "QuizNav" /\ last.dir = "up"
    /\ last.calls = << "onComplete" >>
    /\ last.q = Len(quizzes) - 1 /\ last.q > 0
    /\ qv.currentQuizIndex = last.q
    /\ currentIndex > 1

\* C12: a call of handleAnswerSelect on a question that is already submitted
\* changes no state, schedules no timer and does not call onSubmit.
C12_SecondSubmitIsNoOp ==
    [][ (last'.act = "QuizAnswer" /\ qv.hasSubmitted)
        => /\ last'.calls = << >>
           /\ UNCHANGED <<qv, timers, quizzes, currentIndex, subPageIndex,
                          totalSubPages, view, rv, fetches, pendingEffects>> ]_vars

\* C12 witness: handleAnswerSelect was called on a submitted question whose
\* auto-advance timer is still pending.
C12_Witness ==
    /\ last.act = "QuizAnswer" /\ last.calls = << >>
    /\ qv.hasSubmitted
    /\ qv.currentQuizIndex = last.q
    /\ \E t \in timers : t.live /\ t.q = last.q

\* C20: when the segment-init effect runs in a ReadingView that stayed
\* mounted while the segment changed, it requests pause() on the transport,
\* recomputes the SubPages from the new segment, sets partIndex to 0 and
\* reports (0, new total) to the orchestrator; the ReadingView state is
\* looked at when the orchestrator keeps the ReadingView displayed.
C20_SegmentChangeResets ==
    [][ ( /\ last'.act = "FlushEffects"
          /\ "rvInit" \in pendingEffects
          /\ view = "reading"
          /\ rv.previousSegmentIdRef # 0
          /\ rv.previousSegmentIdRef # currentIndex )
        => /\ last'.pause
           /\ view' = "reading"
              => /\ rv'.pageParts = PartsOf(segments[currentIndex])
                 /\ rv'.partIndex = 0
                 /\ rv'.previousSegmentIdRef = currentIndex
           /\ subPageIndex' = 0
           /\ totalSubPages' = Len(PartsOf(segments[currentIndex])) ]_vars

\* C20 witness: the effect has just run for segment 2 in a ReadingView that
\* had been showing a later SubPage of a segment whose SubPage count differs.
C20_Witness ==
    /\ last.act = "FlushEffects" /\ last.pause
    /\ view = "reading" /\ currentIndex = 2
    /\ rv.previousSegmentIdRef = 2 /\ rv.partIndex = 0
    /\ rv.pageParts = PartsOf(segments[2])
    /\ subPageIndex = 0 /\ totalSubPages = Len(rv.pageParts)
    /\ Len(rv.pageParts) > 0
    /\ Len(PartsOf(segments[1])) > 1
    /\ Len(PartsOf(segments[1])) # Len(rv.pageParts)

\* C19 (as claimed): while enabled is false no sound is attached and no run
\* issues loadAsync, and the step that switches enabled from true to false
\* releases the attached sound and clears isPlaying.
C19_DisabledNeverLoads ==
    [][ /\ (mounted' /\ ~enabled')
           => /\ sound' = 0
              /\ \A i \in DOMAIN loads' :
                   loads'[i].pc = "load" => (i \in DOMAIN loads /\ loads[i].pc = "load")
        /\ (mounted /\ mounted' /\ enabled /\ ~enabled')
           => /\ sound # 0 => sound \notin loaded'
              /\ ~isPlaying' ]_vars

\* C18: when the load of the current run fails (getSignedUrl returns null or
\* loadAsync throws), the catch block leaves the player with no attached
\* sound, isLoading false and isPlaying false, the sound the run created is
\* not loaded, and every sound attached before has been released.  The catch
\* block of any run, current or not, leaves the run's own sound unloaded.
C18_LoadFailureHandled ==
    [][ \A i \in DOMAIN loads :
          (i \in DOMAIN loads' /\ loads'[i].failed /\ ~loads[i].failed)
          => /\ i \notin loaded'
             /\ loads'[i].pc = "done"
             /\ loads[i].isMounted
                => /\ sound' = 0 /\ ~isLoading' /\ ~isPlaying'
                   /\ \A j \in DOMAIN loads :
                        loads[j].attached => (j \notin loaded' /\ j \in released') ]_vars

\* C18 witness: the current run has failed after a sound had been attached;
\* that sound is released and the player shows no sound and no loading.
C18_Witness ==
    \E i \in DOMAIN loads :
        /\ loads[i].failed /\ loads[i].isMounted
        /\ loads[i].old # 0 /\ loads[loads[i].old].attached
        /\ loads[i].old \in released
        /\ mounted /\ sound = 0 /\ ~isLoading /\ ~isPlaying

\* C17 (as claimed): while a sound is attached, every other sound that was
\* attached before has been released, so that two attached, un-released
\* sounds never coexist.
C17_PreviousSoundReleased ==
    \A i \in DOMAIN loads :
        (sound # 0 /\ loads[i].attached /\ sound # i) => i \notin loaded

\* C16: when the boundary-reached signal fires on SubPage i that is not the
\* last, the forward path runs with keepAudioPlaying = true: no pause is
\* requested, partIndex becomes i + 1, (i + 1, total) is reported upward and
\* the ReadingView stays displayed with a play() timeout pending; when that
\* timeout fires, play() is invoked and the SubPage is left as it is.
C16_BoundaryContinuesNarration ==
    [][ /\ (last'.act = "AudioFinish" /\ rv.partIndex < Len(rv.pageParts) - 1)
           => /\ ~last'.pause
              /\ last'.calls = << >>
              /\ rv'.partIndex = rv.partIndex + 1
              /\ subPageIndex' = rv.partIndex + 1
              /\ totalSubPages' = Len(rv.pageParts)
              /\ view' = "reading"
              /\ rv'.playTimer
        /\ last'.act = "PlayTimerFire"
           => /\ rv.playTimer /\ ~rv'.playTimer
              /\ last'.calls = << "play" >>
              /\ rv'.partIndex = rv.partIndex
              /\ UNCHANGED <<currentIndex, subPageIndex, totalSubPages>> ]_vars

\* C16 witness: play() has just been invoked on SubPage 1 of a segment with
\* several SubPages, reached by the boundary signal.
C16_Witness ==
    /\ last.act = "PlayTimerFire" /\ last.calls = << "play" >>
    /\ view = "reading" /\ rv.partIndex = 1 /\ subPageIndex = 1
    /\ Len(rv.pageParts) > 1

\* C15 (as claimed): for one crossing of the end boundary, onFinish is
\* delivered at most once, however many status ticks with position >=
\* endPosition arrive before the owner updates the boundary window.
C15_OnFinishOncePerCrossing ==
    transport.finishes <= 1

\* C14 (as claimed): after a submission on question j of m, as long as the
\* user does nothing, the timers act at most once in total: they move the
\* question index once and never call onComplete when j < m - 1, and call
\* onComplete once and never move the index when j = m - 1.
C14_AutoAdvanceOnce ==
    history.idle.j >= 0
    => /\ history.idle.adv + history.idle.done <= 1
       /\ (history.idle.j < history.idle.m - 1) => history.idle.done = 0
       /\ (history.idle.j = history.idle.m - 1) => history.idle.adv = 0

\* C13 (as claimed): within one QuizView, onSubmit is never called twice
\* with the same question identifier.
C13_ReportedOncePerQuestion ==
    (last.act = "QuizAnswer" /\ last.calls = << "onSubmit" >>) => ~history.dup

\* C21: ReadingView's handleNavigation moves partIndex by exactly one inside
\* the segment and reports (newIndex, total) upward; at the last SubPage a
\* forward move leaves partIndex alone and calls onNavigate once with
\* autoPlayNextSegment = keepAudioPlaying; at SubPage 0 a backward move leaves
\* partIndex alone and calls onNavigate('down').  Whenever the SubPage
\* sequence is non-empty, 0 <= partIndex < pageParts.length.
C21_ReadingNavigationBounds ==
    [][ LET i == rv.partIndex
            n == Len(rv.pageParts)
            nav == last'.act \in {"ReadingTap", "AudioFinish"}
            kept == view' = "reading" => rv'.partIndex = i /\ rv'.pageParts = rv.pageParts
        IN /\ nav /\ last'.dir = "up" /\ i < n - 1 =>
                /\ rv'.partIndex = i + 1
                /\ subPageIndex' = i + 1 /\ totalSubPages' = n
                /\ last'.calls = << >>
           /\ nav /\ last'.dir = "up" /\ ~(i < n - 1) =>
                /\ kept
                /\ last'.calls = << "onNavigate" >>
                /\ last'.autoPlayNextSegment = (last'.act = "AudioFinish")
           /\ nav /\ last'.dir = "down" /\ i > 0 =>
                /\ rv'.partIndex = i - 1
                /\ subPageIndex' = i - 1 /\ totalSubPages' = n
                /\ last'.calls = << >>
           /\ nav /\ last'.dir = "down" /\ ~(i > 0) =>
                /\ kept
                /\ last'.calls = << "onNavigate" >>
                /\ last'.req = "down"
           /\ nav /\ n > 0 => i \in 0..(n - 1)
           /\ Len(rv'.pageParts) > 0 => rv'.partIndex \in 0..(Len(rv'.pageParts) - 1) ]_vars

\* A forward move at the last SubPage of a segment with several SubPages has
\* been delegated upward by the boundary signal.
C21_Witness ==
    /\ last.act = "AudioFinish"
    /\ last.calls = << "onNavigate" >>
    /\ last.autoPlayNextSegment
    /\ last.req = "up"
    /\ Len(rv.pageParts) > 1

\* C22 (as claimed): once the segment-init effect has run for a text segment,
\* ReadingView holds at least one SubPage and the orchestrator's
\* totalSubPages is at least 1; for an empty text it is exactly one SubPage.
C22_TextSegmentHasSubPage ==
    ( /\ view = "reading"
      /\ pendingEffects = {}
      /\ rv.previousSegmentIdRef = currentIndex
      /\ segments[currentIndex].slide_type = "text" )
    => /\ Len(rv.pageParts) >= 1
       /\ totalSubPages >= 1
       /\ segments[currentIndex].text = 0 => Len(rv.pageParts) = 1

\* C23 (as claimed): for a non-empty text the SubPage texts of
\* createPageParts, concatenated in order without the inserted page
\* separators, are the input without the blanks that separate its sentences:
\* every sentence once, in order, with its own terminator characters.
C23_PaginationReconstructsText ==
    LET RECURSIVE concat(_)
        concat(ss) == IF Len(ss) = 0 THEN << >> ELSE ss[1] \o concat(Tail(ss))
        separates(t, i) ==
            /\ IsWhitespace(t[i])
            /\ \E j \in 1..(i - 1) :
                  IsTerminator(t[j]) /\ \A k \in (j + 1)..i : IsWhitespace(t[k])
        sentencesOf(t) ==
            concat([i \in 1..Len(t) |-> IF separates(t, i) THEN << >> ELSE << t[i] >>])
        shown == SelectSeq(concat([i \in 1..Len(page.parts) |-> page.parts[i].text]),
                           LAMBDA c : c # "\n")
    IN (page.parts # << >> /\ page.text # << >>) => shown = sentencesOf(page.text)

C25_ForwardAtBookEndCompletes ==
    [][ ( /\ last'.act \in {"ReadingTap", "AudioFinish"}
          /\ last'.dir = "up"
          /\ isLast /\ Len(quizzes) = 0
          /\ Len(rv.pageParts) > 0 /\ rv.partIndex = Len(rv.pageParts) - 1 )
        => /\ \E i \in 1..Len(last'.calls) : last'.calls[i] = "onComplete"
           /\ subPageIndex' = subPageIndex
           /\ currentIndex' = currentIndex ]_vars

C27_PlayTimerCancelled ==
    ( \/ last.act = "ReadingTap" /\ last.pause
      \/ last.act = "FlushEffects" /\ last.pause
      \/ view # "reading" )
    => ~rv.playTimer

\* C28: play() with no attached sound, with a load in progress, with a sound
\* that is not loaded or with a transport that is already playing issues no
\* seek and no playAsync and leaves isPlaying alone; otherwise it seeks to
\* startPosition first exactly when startPosition is non-null and more than
\* 100 ms away from the position, then starts playback and sets isPlaying.
C28_PlayContract ==
    [][ (playback'.act = "play" /\ playback' # playback) =>
          LET st == playback.status
              sp == playback.startPosition
              ops == playback'.ops
              blocked == sound = 0 \/ isLoading \/ sound \notin loaded \/ st.isPlaying
              far == sp # NoPosition
                     /\ (st.positionMillis - sp * 1000 > 100
                         \/ sp * 1000 - st.positionMillis > 100)
              at(op) == { i \in 1..Len(ops) : ops[i] = op }
          IN IF blocked
             THEN /\ at("setPositionAsync") = {} /\ at("playAsync") = {}
                  /\ isPlaying' = isPlaying
                  /\ playback'.status = st
             ELSE /\ Cardinality(at("playAsync")) = 1
                  /\ IF far
                     THEN /\ Cardinality(at("setPositionAsync")) = 1
                          /\ \A i \in at("setPositionAsync"), j \in at("playAsync") : i < j
                          /\ playback'.status.positionMillis = sp * 1000
                     ELSE /\ at("setPositionAsync") = {}
                          /\ playback'.status.positionMillis = st.positionMillis
                  /\ isPlaying'
                  /\ playback'.status.isPlaying ]_vars

\* play() has found the paused sound 101 ms past startPosition, has sought
\* back to it and started playback.
C28_Witness ==
    /\ playback.act = "play"
    /\ playback.ops = << "getStatusAsync", "setPositionAsync", "playAsync" >>
    /\ playback.startPosition = 1
    /\ playback.status = [isPlaying |-> TRUE, positionMillis |-> 1000]
    /\ isPlaying

\* C29: when startPosition changes to a non-null value on a loaded, paused
\* sound, the seek effect issues setPositionAsync to the new start exactly
\* when the position is more than 100 ms away from it; a change of
\* startPosition never issues playAsync and changes neither the transport's
\* playing state nor isPlaying.
C29_BoundaryChangeSeeksOnly ==
    [][ (playback'.act = "seek" /\ playback' # playback) =>
          LET st == playback.status
              sp == playback'.startPosition
              ops == playback'.ops
              far == st.positionMillis - sp * 1000 > 100
                     \/ sp * 1000 - st.positionMillis > 100
              at(op) == { i \in 1..Len(ops) : ops[i] = op }
          IN /\ (StatusIsLoaded /\ ~st.isPlaying /\ sp # NoPosition) =>
                   IF far
                   THEN /\ at("setPositionAsync") # {}
                        /\ playback'.status.positionMillis = sp * 1000
                   ELSE /\ at("setPositionAsync") = {}
                        /\ playback'.status.positionMillis = st.positionMillis
             /\ at("playAsync") = {}
             /\ playback'.status.isPlaying = st.isPlaying
             /\ isPlaying' = isPlaying ]_vars

\* The start boundary of a paused, loaded sound has moved to second 0 and
\* the effect has sought there.
C29_Witness ==
    /\ playback.act = "seek"
    /\ playback.ops = << "getStatusAsync", "setPositionAsync" >>
    /\ playback.startPosition = 0
    /\ playback.status = [isPlaying |-> FALSE, positionMillis |-> 0]
    /\ sound # 0 /\ sound \in loaded

\* C30: a run of the segment-init effect for the segment it has already
\* initialised, with a non-empty SubPage sequence, leaves partIndex and the
\* SubPage sequence as they are and reports nothing to the orchestrator.
C30_RerunKeepsSubPages ==
    [][ ( /\ last'.act = "ReadingRerender"
          /\ rv.previousSegmentIdRef = currentIndex
          /\ Len(rv.pageParts) > 0 )
        => /\ view' = "reading"
           /\ rv'.partIndex = rv.partIndex
           /\ rv'.pageParts = rv.pageParts
           /\ last'.calls = << >>
           /\ ~last'.pause
           /\ UNCHANGED <<subPageIndex, totalSubPages, currentIndex>> ]_vars

\* The effect has run again while the reader stands on a later SubPage of a
\* segment with several SubPages.
C30_Witness ==
    /\ last.act = "ReadingRerender"
    /\ rv.previousSegmentIdRef = currentIndex
    /\ Len(rv.pageParts) > 1
    /\ rv.partIndex > 0

\* C31 (as claimed): when some span contains the page's first words, start
\* is the start of the first such span, and end is the end of the first span
\* at or after it that contains the page's last words; when no span at or
\* after it does, end stays unset and the whole-audio window is returned.
C31_MatcherScanOrder ==
    LET segs == alignment.segments
        firstW == firstWords(toLowerCase(alignment.text))
        lastW == lastWords(toLowerCase(alignment.text))
        F == { i \in 1..Len(segs) : includes(toLowerCase(segs[i].text), firstW) }
        s == CHOOSE i \in F : \A j \in F : i <= j
        L == { i \in 1..Len(segs) : i >= s /\ includes(toLowerCase(segs[i].text), lastW) }
        e == CHOOSE i \in L : \A j \in L : i <= j
    IN (alignment.done /\ alignment.present /\ F # {}) =>
          IF L # {}
          THEN alignment.timing = [start |-> segs[s].start, end |-> segs[e].end]
          ELSE alignment.timing = [start |-> segs[1].start, end |-> segs[Len(segs)].end]

\* C32: findAudioTimingForText returns null exactly when the alignment data
\* is absent or has no span; with at least one span and no span containing
\* the first or the last words it returns the window from the start of the
\* first span to the end of the last.
C32_NullOnlyWithoutSpans ==
    LET segs == alignment.segments
        firstW == firstWords(toLowerCase(alignment.text))
        lastW == lastWords(toLowerCase(alignment.text))
        matched == { i \in 1..Len(segs) : \/ includes(toLowerCase(segs[i].text), firstW)
                                          \/ includes(toLowerCase(segs[i].text), lastW) }
    IN alignment.done =>
          /\ (alignment.timing = NoTiming) <=> (~alignment.present \/ Len(segs) = 0)
          /\ (alignment.present /\ Len(segs) > 0 /\ matched = {}) =>
                alignment.timing = [start |-> segs[1].start, end |-> segs[Len(segs)].end]

\* Several spans, none with the first or last words of the page, and the
\* whole-audio window has been returned.
C32_Witness ==
    /\ alignment.done /\ alignment.present
    /\ Len(alignment.segments) = MaxSpans
    /\ \A i \in 1..Len(alignment.segments) : alignment.segments[i].text = << "z" >>
    /\ alignment.timing = [start |-> 0, end |-> alignment.segments[MaxSpans].end]
    /\ alignment.timing.end > 0

\* C39 (as claimed): with spans ordered by time and start <= end in each, a
\* non-null timing has start <= end.
C39_NoInvertedWindow ==
    (alignment.done /\ alignment.timing # NoTiming) =>
        alignment.timing.start <= alignment.timing.end

\* C33: when a native call is rejected inside play(), pause(), togglePlayback
\* or the seek effect, the catch block of the caller handles it, and in the
\* state it leaves isPlaying is not set while the transport is not playing;
\* the same holds in every other state of the player.
C33_NoOrphanedPlayingFlag ==
    [][ /\ isPlaying' => (sound # 0 /\ sound \in loaded /\ playback'.status.isPlaying)
        /\ playback'.act \in {"playFault", "pauseFault"} => ~isPlaying'
        /\ playback'.act \in {"toggleFault", "seekFault"} =>
              /\ isPlaying' = isPlaying
              /\ playback'.status.isPlaying = playback.status.isPlaying ]_vars

\* togglePlayback on a paused sound has sought to startPosition, playAsync
\* was rejected, and the flag is still clear.
C33_Witness ==
    /\ playback.act = "toggleFault"
    /\ playback.ops = << "setPositionAsync" >>
    /\ ~isPlaying /\ ~playback.status.isPlaying
    /\ playback.status.positionMillis = playback.startPosition * 1000

\* C34: while the QuizView shows a non-empty quiz set, its question index
\* is one of 0..quizzes.length-1, so currentQuiz is defined and the
\* "Loading quiz..." fallback is not rendered.
C34_QuestionIndexInRange ==
    (view = "quiz" /\ Len(quizzes) > 0) => HasCurrentQuiz

\* C35: subPageIndex is never negative, and once the effects of the last
\* commit have run and no quiz fetch is outstanding it is at most
\* totalSubPages + quizzes.length - 1.
C35_LinearIndexInRange ==
    /\ subPageIndex >= 0
    /\ (pendingEffects = {} /\ fetches = {}) =>
          subPageIndex <= totalSubPages + Len(quizzes) - 1

\* C36: a reader who keeps tapping previous gets a previous-segment request
\* issued (or reaches the first page of the book, where the button is
\* disabled), and a reader who keeps tapping next gets a next-segment request
\* issued (or reaches the last page of the book).
C36_NoNavigationTrap ==
    /\ (session.tapping = "down")
          ~> \/ last.req = "down"
             \/ /\ pendingEffects = {} /\ isFirstPage
                /\ (IF view = "quiz" THEN qv.currentQuizIndex = 0 ELSE rv.partIndex = 0)
    /\ (session.tapping = "up")
          ~> \/ last.req = "up"
             \/ /\ pendingEffects = {} /\ isLastPage
                /\ view = "reading" /\ rv.partIndex = Len(rv.pageParts) - 1

\* C37: boundary-reached signals delivered in a row on the last SubPage of a
\* segment without quizzes move the session forward by exactly one segment.
C37_OneSegmentPerCrossing ==
    [][ ( /\ last'.act = "AudioFinishBurst"
          /\ rv.partIndex = Len(rv.pageParts) - 1
          /\ subPageIndex = totalSubPages - 1
          /\ Len(quizzes) = 0
          /\ ~isLast )
        => currentIndex' = currentIndex + 1 ]_vars

\* C38: after the session has advanced to segment k with the autoplay
\* trigger set, play() is called while segment k is displayed, and it is
\* called at most once (unless the reader leaves the segment or switches
\* audio off first).
C38_AutoPlayOnce ==
    /\ \A k \in 2..NumSegments :
          (autoplay.hint = k /\ autoplay.played = 0)
             ~> (autoplay.played >= 1 \/ autoplay.hint # k \/ ~autoplay.enableAudio)
    /\ [](autoplay.played <= 1)

\* C40: a sound whose load completed stays loaded only while the effect run
\* that created it is the current one, and every run cancelled by an
\* unmount, by disabling audio or by a URL change comes to its end with its
\* sound not loaded.
C40_NoAudioLeak ==
    /\ [](\A i \in loaded : i \in DOMAIN loads /\ loads[i].isMounted)
    /\ \A i \in 1..MaxRuns :
          (i \in DOMAIN loads /\ ~loads[i].isMounted)
             ~> (i \in DOMAIN loads /\ loads[i].pc = "done" /\ i \notin loaded)

\* A run was cancelled while its loadAsync was in flight; the load completed
\* and the sound has been released.
C40_Witness ==
    \E i \in DOMAIN loads :
        /\ loads[i].cancelledAt = "load"
        /\ loads[i].pc = "done" /\ ~loads[i].failed
        /\ i \in released /\ i \notin loaded

NavNext ==
    \/ FlushEffects
    \/ ReadingTap
    \/ AudioFinish
    \/ PlayTimerFire
    \/ LoadQuizzesDone
    \/ QuizAnswer
    \/ QuizNav
    \/ TimerFire

Spec == Init /\ [][NavNext]_vars

QuizNext ==
    \/ FlushEffects
    \/ ReadingTap
    \/ AudioFinish
    \/ PlayTimerFire
    \/ LoadQuizzesDone
    \/ QuizAnswer
    \/ QuizRender
    \/ QuizNav
    \/ TimerFire

\* BookPage and its children in a session where a second press can be
\* handled before the re-render and two timeouts can be outstanding.
SpecQuiz == InitQuiz /\ [][QuizNext]_vars

AudioNext ==
    \/ AudioMount
    \/ AudioProps
    \/ AudioUnmount
    \/ SignedUrlDone
    \/ LoadDone
    \/ UnloadOldDone
    \/ DisabledUnloadDone
    \/ togglePlayback

\* The AudioPlayer under an owner that may mount it, change its props and
\* unmount it at any time.
SpecAudio == Init /\ [][AudioNext]_vars

PlaybackNext ==
    \/ AudioMount
    \/ AudioProps
    \/ AudioUnmount
    \/ SignedUrlDone
    \/ LoadDone
    \/ UnloadOldDone
    \/ DisabledUnloadDone
    \/ togglePlayback
    \/ BoundaryReached
    \/ StatusTick
    \/ WindowUpdate

\* The AudioPlayer with the status updates of the native player.
SpecPlayback == Init /\ [][PlaybackNext]_vars
PagesNext ==
    \/ Paginate
    \/ \E direction \in {"up", "down"} : PageNavigate(direction)

SpecPages == InitPages /\ [][PagesNext]_vars
AnswersNext ==
    \/ AnswersRender
    \/ AnswersRemount
    \/ AnswersChange

SpecAnswers == InitAnswers /\ [][AnswersNext]_vars
SeekNext ==
    \/ play
    \/ pause
    \/ StartPositionChange
    \/ PositionAdvance

SpecSeek == InitSeek /\ [][SeekNext]_vars
RerenderNext ==
    \/ NavNext
    \/ ReadingRerender

SpecRerender == Init /\ [][RerenderNext]_vars
AlignmentNext ==
    \/ FindTiming

SpecAlignment == InitAlignment /\ [][AlignmentNext]_vars
FaultsNext ==
    \/ SeekNext
    \/ \E failing \in {"getStatusAsync", "setPositionAsync", "playAsync"} : playFault(failing)
    \/ \E failing \in {"getStatusAsync", "pauseAsync"} : pauseFault(failing)
    \/ \E failing \in {"none", "setPositionAsync", "playAsync", "pauseAsync"} : toggle(failing)
    \/ \E failing \in {"getStatusAsync", "setPositionAsync"} : seekFault(failing)

\* The AudioPlayer with native calls that may be rejected.
SpecFaults == InitFaults /\ [][FaultsNext]_vars
TapsNext ==
    \/ Browse
    \/ StartTapping
    \/ Tap
    \/ Settle

\* The reader keeps tapping and React keeps running effects.
SpecTaps == InitTaps /\ [][TapsNext]_vars /\ WF_vars(Tap) /\ WF_vars(Settle)
BurstNext ==
    \/ NavNext
    \/ AudioFinishBurst

SpecBurst == Init /\ [][BurstNext]_vars
AutoplayNext ==
    \/ BoundaryAdvance
    \/ PartTap
    \/ SegmentTap
    \/ SettingToggle
    \/ AutoplayEffects
    \/ ResetFire
    \/ AutoPlayFire

\* React runs the effects of every commit and every pending timeout fires.
SpecAutoplay ==
    /\ InitAutoplay /\ [][AutoplayNext]_vars
    /\ WF_vars(AutoplayEffects) /\ WF_vars(ResetFire) /\ WF_vars(AutoPlayFire)
ReleaseNext ==
    \/ Len(loads) < MaxRuns /\ AudioMount
    \/ Len(loads) < MaxRuns /\ AudioProps
    \/ AudioUnmount
    \/ SignedUrlDone
    \/ LoadDone
    \/ UnloadOldDone
    \/ DisabledUnloadDone

\* The AudioPlayer's load effect over MaxRuns runs, when every promise it
\* awaits settles.
SpecRelease ==
    /\ Init /\ [][ReleaseNext]_vars
    /\ WF_vars(SignedUrlDone) /\ WF_vars(LoadDone)
    /\ WF_vars(UnloadOldDone) /\ WF_vars(DisabledUnloadDone)
====
